---- MODULE Spec2Model ----
(***************************************************************************)
(* Bill lifecycle of the billing backend, src/server.js (the optimized     *)
(* revision, lines 554-1281): session gate, bill record codec, and the     *)
(* save / list / get / update / soft-delete / restore / purge handlers     *)
(* against the two tables bills and deleted_bills.                         *)
(*                                                                         *)
(* A handler is a sequence of steps, one per store call it awaits.  Every  *)
(* store call may fail.  The statements of a transaction are buffered in   *)
(* the request (tx) and reach the tables at COMMIT, or never.              *)
(*                                                                         *)
(* Spec is the lifecycle; ListSpec is the listing over tables drawn        *)
(* freely, up to and past its default limit; CodecSpec is the codec and    *)
(* its cache on their own; RaceSpec is two write requests in flight at     *)
(* once.                                                                   *)
(***************************************************************************)
EXTENDS Integers, FiniteSets, Sequences, TLC

(***************************************************************************)
(* Bounds of the model.                                                    *)
(***************************************************************************)
MaxBillId == 3
MaxDeletedId == 2
MaxNum == 12

Slots == {1}

(***************************************************************************)
(* JavaScript values: a tag, a number, a text.  An array or object is      *)
(* named by its canonical JSON text, a Date by its calendar date.  A       *)
(* number k is k half cents, so that the odd numbers are the ones a        *)
(* DECIMAL(10,2) column cannot hold.                                       *)
(***************************************************************************)
Undef == [t |-> "undefined", n |-> 0, s |-> ""]
Null == [t |-> "null", n |-> 0, s |-> ""]
NaN == [t |-> "number", n |-> 0, s |-> "NaN"]
Num(k) == [t |-> "number", n |-> k, s |-> ""]
Str(x) == [t |-> "string", n |-> 0, s |-> x]
Native(x) == [t |-> "object", n |-> 0, s |-> x]
DateValue(x) == [t |-> "date", n |-> 0, s |-> x]

\* !v is false
Truthy(v) ==
    /\ v.t \notin {"undefined", "null"}
    /\ v # Num(0)
    /\ v # NaN
    /\ v # Str("")

\* v || d
OrElse(v, d) == IF Truthy(v) THEN v ELSE d

\* v ?? d
Coalesce(v, d) == IF v.t \in {"undefined", "null"} THEN d ELSE v

\* String.prototype.trim on the texts of the model
Trim(s) == IF s \in {" ", "  "} THEN "" ELSE s

\* String(v) / v.toString()
String(v) ==
    CASE v.t = "string" -> v.s
      [] v.t = "number" -> IF v = NaN THEN "NaN" ELSE ToString(v.n)
      [] v.t = "object" -> "[object Object]"
      [] OTHER -> v.t

\* Number(v): NaN unless the text is a decimal literal or blank
StringToNumber(s) ==
    IF Trim(s) = "" THEN Num(0)
    ELSE IF \E k \in 0..MaxNum : ToString(k) = s
         THEN Num(CHOOSE k \in 0..MaxNum : ToString(k) = s)
         ELSE NaN

Number(v) ==
    CASE v.t = "number" -> v
      [] v.t = "string" -> StringToNumber(v.s)
      [] v.t = "null" -> Num(0)
      [] OTHER -> NaN

(***************************************************************************)
(* JSON texts.  JSON.parse is defined on JsonTexts and throws elsewhere;   *)
(* "[ 1 ]" parses to the array whose canonical text is "[1]", and "null"  *)
(* to null.                                                                *)
(***************************************************************************)
JsonTexts == {"[]", "[1]", "[ 1 ]", "[2]", "null"}

JsonValid(s) == s \in JsonTexts

JsonParse(s) ==
    IF s = "[ 1 ]" THEN Native("[1]")
    ELSE IF s = "null" THEN Null
    ELSE Native(s)

JsonStringify(v) ==
    CASE v.t = "object" -> Str(v.s)
      [] v.t = "string" -> Str(v.s)
      [] v.t = "number" -> IF v = NaN THEN Str("null") ELSE Str(ToString(v.n))
      [] OTHER -> Str("null")

\* what a member of an object reads as once the object went through
\* JSON.stringify: a Date as its ISO text (the pool's timezone is +00:00), NaN
\* as null, the rest as it is
JsonMember(v) ==
    CASE v.t = "date" -> Str(v.s \o "T00:00:00.000Z")
      [] v = NaN -> Null
      [] OTHER -> v

\* JSON.stringify of an object of the codec: the text, named by the members
\* a reader of the text finds in it
JsonObjectText(obj) == [json |-> [k \in DOMAIN obj |-> JsonMember(obj[k])]]

(***************************************************************************)
(* Bill record codec.  The jsonCache of toJSONString and parseItems is     *)
(* keyed by JSON text; the handlers give parseItems the value of a JSON    *)
(* column, which the driver returns parsed, so a handler only ever finds   *)
(* in the cache the text toJSONString itself put there.                    *)
(***************************************************************************)
toJSONString(val) ==
    IF val.t \in {"undefined", "null"} THEN Str("[]")
    ELSE IF val.t = "string" THEN val
    ELSE JsonStringify(val)

parseItems(val) ==
    IF ~Truthy(val) THEN Native("[]")
    ELSE IF val.t = "object" THEN val
    ELSE IF val.t = "string" /\ JsonValid(val.s) THEN JsonParse(val.s)
    ELSE IF val.t = "number" THEN val
    ELSE Native("[]")

(***************************************************************************)
(* The same two functions with the jsonCache they share: a Map from a key  *)
(* to a value, here the set of its entries.  toJSONString keys it by the   *)
(* text JSON.stringify makes of its argument, parseItems by its argument.  *)
(***************************************************************************)
CacheLimit == 1000

\* jsonCache.has(key), jsonCache.get(key)
CacheHas(cache, key) == \E e \in cache : e.key = key
CacheGet(cache, key) == (CHOOSE e \in cache : e.key = key).value

\* if (jsonCache.size > 1000) jsonCache.clear(); jsonCache.set(key, value)
CacheSet(cache, key, value) ==
    LET kept == IF Cardinality(cache) > CacheLimit THEN {} ELSE cache IN
    {e \in kept : e.key # key} \cup {[key |-> key, value |-> value]}

\* what toJSONString(val) returns when jsonCache is cache
toJSONStringOn(cache, val) ==
    IF val.t \in {"undefined", "null"} THEN Str("[]")
    ELSE IF val.t = "string" THEN val
    ELSE IF CacheHas(cache, JsonStringify(val)) THEN CacheGet(cache, JsonStringify(val))
    ELSE JsonStringify(val)

\* jsonCache after toJSONString(val)
toJSONStringSets(cache, val) ==
    IF val.t \in {"undefined", "null", "string"} \/ CacheHas(cache, JsonStringify(val))
    THEN cache
    ELSE CacheSet(cache, JsonStringify(val), JsonStringify(val))

\* JSON.parse(val) of parseItems; [] for a text that does not parse
Parsed(val) ==
    IF val.t = "string" /\ JsonValid(val.s) THEN JsonParse(val.s)
    ELSE IF val.t = "number" THEN val
    ELSE Native("[]")

\* JSON.parse(val) throws
ParseThrows(val) == ~(val.t = "number" \/ (val.t = "string" /\ JsonValid(val.s)))

\* what parseItems(val) returns when jsonCache is cache
parseItemsOn(cache, val) ==
    IF ~Truthy(val) THEN Native("[]")
    ELSE IF val.t = "object" THEN val
    ELSE IF CacheHas(cache, val) THEN CacheGet(cache, val)
    ELSE Parsed(val)

\* jsonCache after parseItems(val)
parseItemsSets(cache, val) ==
    IF ~Truthy(val) \/ val.t = "object" \/ CacheHas(cache, val) \/ ParseThrows(val)
    THEN cache
    ELSE CacheSet(cache, val, Parsed(val))

\* fault: the value passed on as it came
toNumUnconverted(v) == v

toNum(v) ==
    IF v.t = "number" THEN (IF v = NaN THEN Num(0) ELSE v)
    ELSE IF Number(v) = NaN THEN Num(0) ELSE Number(v)

buildBillDataRow(row) ==
  JsonObjectText(
    [estimateNo |-> Str(row.estimate_no),
     customerName |-> Coalesce(row.customer_name, Str("")),
     customerPhone |-> Coalesce(row.customer_phone, Str("")),
     billDate |-> Coalesce(row.bill_date, Null),
     items |-> parseItems(row.items),
     subTotal |-> toNum(row.sub_total),
     discount |-> toNum(row.discount),
     grandTotal |-> toNum(row.grand_total),
     received |-> toNum(row.received),
     balance |-> toNum(row.balance),
     amountWords |-> Coalesce(row.amount_words, Str(""))])

\* fault: the required fields tested for truthiness only, without the trim
validateBillInputNoTrim(body) ==
    (IF ~Truthy(body.estimateNo) THEN {"Estimate number is required"} ELSE {})
    \cup
    (IF ~Truthy(body.customerName) THEN {"Customer name is required"} ELSE {})

validateBillInput(body) ==
    (IF body.estimateNo.t \in {"undefined", "null"} \/ Trim(String(body.estimateNo)) = ""
     THEN {"Estimate number is required"} ELSE {})
    \cup
    (IF body.customerName.t \in {"undefined", "null"} \/ Trim(String(body.customerName)) = ""
     THEN {"Customer name is required"} ELSE {})

(***************************************************************************)
(* Relational store: what a column keeps of the parameter written to it.   *)
(* items is a JSON column: a text that is not JSON fails the statement,    *)
(* and a read returns the parsed value.  A DATE column returns a Date.  A  *)
(* DECIMAL(10,2) column rounds to the cent, half up, and returns text.     *)
(* The columns of bills are taken to be those of deleted_bills, whose      *)
(* CREATE TABLE is in the source.                                          *)
(***************************************************************************)
VarcharCol(v) == IF v.t \in {"undefined", "null"} THEN Null ELSE Str(String(v))

DateCol(v) ==
    IF v.t \in {"undefined", "null"} THEN Null
    ELSE IF v.t = "date" THEN v ELSE DateValue(String(v))

JsonColAccepts(v) == v.t \in {"undefined", "null"} \/ (v.t = "string" /\ JsonValid(v.s))

JsonCol(v) == IF v.t \in {"undefined", "null"} THEN Null ELSE JsonParse(v.s)

\* k half cents, rounded to the cent
RoundToCent(k) == IF k % 2 = 1 THEN k + 1 ELSE k

DecimalCol(v) ==
    IF v.t \in {"undefined", "null"} THEN Null
    ELSE IF Number(v) = NaN THEN Str("0")
    ELSE Str(ToString(RoundToCent(Number(v).n)))

Owners == {"admin", "legacy"}
NoUser == "none"

\* the columns a bill and a deleted bill share, but for the keys
DataCols ==
    {"customer_name", "customer_phone", "bill_date", "items", "sub_total",
     "discount", "grand_total", "received", "balance", "amount_words"}

Data(row) == [c \in DataCols |-> row[c]]

\* INSERT_BILL / UPDATE_BILL parameters, in column order, as the columns keep them
BillColumns(p) ==
    [customer_name |-> VarcharCol(p[1]),
     customer_phone |-> VarcharCol(p[2]),
     bill_date |-> DateCol(p[3]),
     items |-> JsonCol(p[4]),
     sub_total |-> DecimalCol(p[5]),
     discount |-> DecimalCol(p[6]),
     grand_total |-> DecimalCol(p[7]),
     received |-> DecimalCol(p[8]),
     balance |-> DecimalCol(p[9]),
     amount_words |-> VarcharCol(p[10])]

\* created_at and updated_at are TIMESTAMP columns that the server fills in,
\* in whole seconds.  The lifecycle runs within one second of that clock,
\* so that every row it writes bears the same stamp and no listing order is
\* excluded; the listing specification draws the stamps freely.
Now == 0

\* INSERT INTO bills (estimate_no, <data columns>, user_id)
InsertBillRow(id, estimateNo, p, userId) ==
    [id |-> id, estimate_no |-> estimateNo, user_id |-> userId,
     created_at |-> Now, updated_at |-> Now] @@ BillColumns(p)

\* fault: the UPDATE keyed on the estimate number of row id alone
UpdateBillRowsByEstimateNo(table, p, id) ==
    {IF \E x \in table : x.id = id /\ x.estimate_no = row.estimate_no
     THEN [updated_at |-> Now] @@ BillColumns(p) @@ row
     ELSE row : row \in table}

\* fault: an UPDATE that blanks estimate_no
UpdateBillRowsRenumbers(table, p, id) ==
    {IF row.id = id
     THEN [updated_at |-> Now, estimate_no |-> ""] @@ BillColumns(p) @@ row
     ELSE row : row \in table}

\* fault: an UPDATE that leaves customer_name out of its SET list
UpdateBillRowsKeepsName(table, p, id) ==
    {IF row.id = id
     THEN [updated_at |-> Now, customer_name |-> row.customer_name] @@ BillColumns(p) @@ row
     ELSE row : row \in table}

\* UPDATE bills SET <data columns> WHERE id = ?
UpdateBillRows(table, p, id) ==
    {IF row.id = id THEN [updated_at |-> Now] @@ BillColumns(p) @@ row
     ELSE row : row \in table}

\* SELECT * FROM bills WHERE estimate_no = ? AND user_id = ? LIMIT 1
SelectBillByEstimate(table, estimateNo, userId) ==
    {row \in table : row.estimate_no = estimateNo /\ row.user_id = userId}

\* any one row of a result set, or none (LIMIT 1 without ORDER BY)
LimitOne(rows) == IF rows = {} THEN {{}} ELSE {{row} : row \in rows}

(***************************************************************************)
(* Request bodies.                                                         *)
(***************************************************************************)
WireBill(e, c, ph, d, it, st, di, gt, re, ba, aw) ==
    [estimateNo |-> e, customerName |-> c, customerPhone |-> ph, billDate |-> d,
     items |-> it, subTotal |-> st, discount |-> di, grandTotal |-> gt,
     received |-> re, balance |-> ba, amountWords |-> aw]

\* every other field absent
Minimal(e, c) == WireBill(e, c, Undef, Undef, Undef, Undef, Undef, Undef, Undef, Undef, Undef)

\* every field given, in its own type
Full(e, c) ==
    WireBill(e, c, Str("98"), Str("2024-01-01"), Native("[1]"), Num(10), Num(1), Num(9),
             Num(4), Num(5), Str("nine"))

\* fields given in forms the codec has to coerce
Odd(e, c) ==
    WireBill(e, c, Null, Str(""), Str("[ 1 ]"), Str("12"), Str("abc"), NaN, Null, Undef,
             Num(0))

\* items is a text that is not JSON
BadItems(e, c) ==
    WireBill(e, c, Undef, Undef, Str("not json"), Num(2), Undef, Undef, Undef, Undef, Undef)

\* items is the JSON text of a scalar, null
ScalarItems(e, c) ==
    WireBill(e, c, Undef, Undef, Str("null"), Undef, Undef, Undef, Undef, Undef, Undef)

EstimateNos == {Str("E1"), Str("E2")}

NoBody == [none |-> TRUE]

(***************************************************************************)
(* State.                                                                  *)
(***************************************************************************)
VARIABLES
    bills,          \* table bills, committed rows
    deleted_bills,  \* table deleted_bills, committed rows
    nextBillId,     \* AUTO_INCREMENT of bills.id
    nextDeletedId,  \* AUTO_INCREMENT of deleted_bills.id
    session,        \* req.session.userId of the client's session, or NoUser
    req,            \* the requests: position in the handler, inputs, response
    moved,          \* history: for each deleted bill, the bill it was made from
    estimateNoUnique, \* schema of bills: estimate_no has a UNIQUE key
    jsonCache       \* the Map shared by toJSONString and parseItems

vars ==
    <<bills, deleted_bills, nextBillId, nextDeletedId, session, req, moved,
      estimateNoUnique, jsonCache>>
tables == <<bills, deleted_bills, nextBillId, nextDeletedId, moved, estimateNoUnique>>
store == <<tables, jsonCache>>

\* the INSERT into bills fails on the UNIQUE key of estimate_no, where the
\* schema has one
DuplicateKey(estimateNo) ==
    estimateNoUnique /\ \E x \in bills : x.estimate_no = estimateNo

NoTx == [ins |-> {}, del |-> {}]

NewReq(op) ==
    [op |-> op, pc |-> "start", user |-> NoUser, body |-> NoBody, est |-> Undef,
     id |-> Undef, rows |-> {}, tx |-> NoTx, conn |-> FALSE, acquired |-> 0, released |-> 0,
     status |-> 0, action |-> "", rid |-> 0, out |-> {}, page |-> <<>>,
     after |-> NoBody]

Idle == [NewReq("none") EXCEPT !.pc = "idle"]

\* res.status(code).json(...)
Reply(q, code) == [q EXCEPT !.pc = "done", !.status = code]

\* a slot takes a new request once its last one is over
Free(r) == req[r].pc \in {"idle", "done", "crashed"}

\* rows of another identity that the tables held before the server started
LegacyBill == InsertBillRow(1, "E1", <<Str("Zed"), Str(""), Null, Str("[2]"), Num(3), Num(0),
                                       Num(3), Num(3), Num(0), Str("")>>, "legacy")

LegacyDeleted ==
    [id |-> 1, original_bill_id |-> 0, estimate_no |-> "E2", user_id |-> "legacy"]
    @@ Data(LegacyBill)

\* The tables are empty or hold the rows of another identity.  The source
\* does not create table bills: its one description of it (the comment at
\* lines 168-174) gives estimate_no a UNIQUE key, while the indexes that
\* initDb adds are plain, so the key is there or not, as the deployment
\* has it; it matters once two identities use one estimate number.
Init ==
    /\ \E seeded \in BOOLEAN :
          /\ bills = IF seeded THEN {LegacyBill} ELSE {}
          /\ deleted_bills = IF seeded THEN {LegacyDeleted} ELSE {}
          /\ nextBillId = IF seeded THEN 2 ELSE 1
          /\ nextDeletedId = IF seeded THEN 2 ELSE 1
          /\ estimateNoUnique \in (IF seeded THEN BOOLEAN ELSE {FALSE})
    /\ session = NoUser
    /\ req = [r \in Slots |-> Idle]
    /\ moved = {}
    /\ jsonCache = {}

(***************************************************************************)
(* requireAuth                                                             *)
(***************************************************************************)
requireAuth == session # NoUser

(***************************************************************************)
(* POST /api/save-bill                                                     *)
(***************************************************************************)
billData(b) ==
    <<OrElse(b.customerName, Str("")),
      OrElse(b.customerPhone, Str("")),
      OrElse(b.billDate, Null),
      toJSONString(b.items),
      toNum(b.subTotal),
      toNum(b.discount),
      toNum(b.grandTotal),
      toNum(b.received),
      toNum(b.balance),
      OrElse(b.amountWords, Str(""))>>

\* history: the slot's last request, if that was a save that succeeded as userId
SavedJustBefore(r, userId) ==
    IF req[r].op = "save" /\ req[r].pc = "done" /\ req[r].status = 200
       /\ req[r].user = userId
    THEN [body |-> req[r].body, rid |-> req[r].rid] ELSE NoBody

\* fault: the body validated before the session is looked at
StartSaveValidatesFirst(r, b) ==
    /\ Free(r)
    /\ \/ nextBillId <= MaxBillId
       \/ SelectBillByEstimate(bills, String(b.estimateNo), session) # {}
    /\ LET q == [NewReq("save") EXCEPT !.body = b] IN
       req' = [req EXCEPT ![r] =
                 IF validateBillInput(b) # {} THEN Reply(q, 400)
                 ELSE IF ~requireAuth THEN Reply(q, 401)
                 ELSE [q EXCEPT !.user = session, !.pc = "select",
                                !.after = SavedJustBefore(r, session)]]
    /\ UNCHANGED <<store, session>>

\* a save that would insert is taken while ids are left under the bound
StartSave(r, b) ==
    /\ Free(r)
    /\ \/ nextBillId <= MaxBillId
       \/ SelectBillByEstimate(bills, String(b.estimateNo), session) # {}
    /\ LET q == [NewReq("save") EXCEPT !.body = b] IN
       req' = [req EXCEPT ![r] =
                 IF ~requireAuth THEN Reply(q, 401)
                 ELSE IF validateBillInput(b) # {} THEN Reply([q EXCEPT !.user = session], 400)
                 ELSE [q EXCEPT !.user = session, !.pc = "select",
                                !.after = SavedJustBefore(r, session)]]
    /\ jsonCache' = IF requireAuth /\ validateBillInput(b) = {}
                    THEN toJSONStringSets(jsonCache, b.items) ELSE jsonCache
    /\ UNCHANGED <<tables, session>>

SaveSelect(r) ==
    /\ req[r].op = "save" /\ req[r].pc = "select"
    /\ \E ok \in BOOLEAN :
         IF ~ok THEN req' = [req EXCEPT ![r] = Reply(@, 500)]
         ELSE \E existing \in LimitOne(SelectBillByEstimate(bills,
                                         String(req[r].body.estimateNo), req[r].user)) :
                req' = [req EXCEPT ![r].rows = existing, ![r].pc = "write"]
    /\ UNCHANGED <<store, session>>

\* fault: the write is an insert whatever the select found
SaveWriteAlwaysInserts(r) ==
    /\ req[r].op = "save" /\ req[r].pc = "write"
    /\ LET b == req[r].body IN
       \E ok \in BOOLEAN :
            IF ~ok \/ ~JsonColAccepts(billData(b)[4])
            THEN /\ req' = [req EXCEPT ![r] = Reply(@, 500)]
                 /\ UNCHANGED store
            ELSE /\ bills' = bills \cup {InsertBillRow(nextBillId, String(b.estimateNo),
                                                       billData(b), req[r].user)}
                 /\ nextBillId' = nextBillId + 1
                 /\ req' = [req EXCEPT ![r] =
                              [Reply(@, 200) EXCEPT !.action = "inserted", !.rid = nextBillId]]
                 /\ UNCHANGED <<deleted_bills, nextDeletedId, moved>>
    /\ UNCHANGED <<session, estimateNoUnique, jsonCache>>

SaveWrite(r) ==
    /\ req[r].op = "save" /\ req[r].pc = "write"
    /\ LET b == req[r].body
           existing == req[r].rows
       IN \E ok \in BOOLEAN :
            IF \/ ~ok \/ ~JsonColAccepts(billData(b)[4])
               \/ (existing = {} /\ DuplicateKey(String(b.estimateNo)))
            THEN /\ req' = [req EXCEPT ![r] = Reply(@, 500)]
                 /\ UNCHANGED store
            ELSE IF existing # {}
            THEN LET row == CHOOSE x \in existing : TRUE IN
                 /\ bills' = UpdateBillRows(bills, billData(b), row.id)
                 /\ req' = [req EXCEPT ![r] =
                              [Reply(@, 200) EXCEPT !.action = "updated", !.rid = row.id]]
                 /\ UNCHANGED <<deleted_bills, nextBillId, nextDeletedId, moved>>
            ELSE /\ bills' = bills \cup {InsertBillRow(nextBillId, String(b.estimateNo),
                                                       billData(b), req[r].user)}
                 /\ nextBillId' = nextBillId + 1
                 /\ req' = [req EXCEPT ![r] =
                              [Reply(@, 200) EXCEPT !.action = "inserted", !.rid = nextBillId]]
                 /\ UNCHANGED <<deleted_bills, nextDeletedId, moved>>
    /\ UNCHANGED <<session, estimateNoUnique, jsonCache>>

(***************************************************************************)
(* POST /api/login, POST /api/logout                                       *)
(***************************************************************************)
ADMIN_EMAIL == "admin@x.io"
ADMIN_PASSWORD == "secret"

\* s.trim().toLowerCase() on the texts of the model
TrimLower(s) == IF s = " Admin@X.io " THEN "admin@x.io" ELSE Trim(s)

Emails == {Undef, Str(" Admin@X.io "), Str("eve@x.io"), Num(5)}
Passwords == {Undef, Str("secret"), Str("guess")}

\* email.trim() and password.trim() throw on a value that is not text, and
\* the dispatcher answers a handler that throws with 500; the password is
\* only looked at once the email has matched

Login(r, email, password) ==
    /\ Free(r)
    /\ LET q == [NewReq("login") EXCEPT !.body = [email |-> email, password |-> password]] IN
       IF ~Truthy(email) \/ ~Truthy(password)
       THEN /\ req' = [req EXCEPT ![r] = Reply(q, 400)]
            /\ UNCHANGED session
       ELSE IF \/ email.t # "string"
               \/ (TrimLower(email.s) = ADMIN_EMAIL /\ password.t # "string")
       THEN /\ req' = [req EXCEPT ![r] = Reply(q, 500)]
            /\ UNCHANGED session
       ELSE IF TrimLower(email.s) = ADMIN_EMAIL /\ Trim(password.s) = ADMIN_PASSWORD
       THEN /\ session' = "admin"
            /\ req' = [req EXCEPT ![r] = [Reply(q, 200) EXCEPT !.user = "admin"]]
       ELSE /\ req' = [req EXCEPT ![r] = Reply(q, 401)]
            /\ UNCHANGED session
    /\ UNCHANGED store

Logout(r) ==
    /\ Free(r)
    /\ session' = NoUser
    /\ req' = [req EXCEPT ![r] = Reply(NewReq("logout"), 200)]
    /\ UNCHANGED store

(***************************************************************************)
(* GET /api/get-bills, GET /api/bills/:estimateNo, GET /api/get-deleted-bills *)
(***************************************************************************)
WithBillData(row) == row @@ [billData |-> buildBillDataRow(row)]

\* ORDER BY updated_at DESC, created_at DESC: row a comes before row b
Before(a, b) ==
    \/ a.updated_at > b.updated_at
    \/ a.updated_at = b.updated_at /\ a.created_at > b.created_at

\* the orders the statement may return the rows in: rows that tie on both
\* columns come in any order
RECURSIVE Ordered(_)
Ordered(rows) ==
    IF rows = {} THEN {<<>>}
    ELSE UNION {{<<m>> \o rest : rest \in Ordered(rows \ {m})} :
                  m \in {x \in rows : \A y \in rows : ~Before(y, x)}}

\* LIMIT ? OFFSET ? of a result
Page(rows, limit, offset) ==
    SubSeq(rows, offset + 1, IF offset + limit < Len(rows) THEN offset + limit ELSE Len(rows))

\* SELECT * FROM bills WHERE user_id = ?
\*   ORDER BY updated_at DESC, created_at DESC LIMIT ? OFFSET ?
SelectUserBills(table, userId, limit, offset) ==
    {Page(rows, limit, offset) : rows \in Ordered({row \in table : row.user_id = userId})}

\* SELECT * FROM deleted_bills WHERE user_id = ? ORDER BY deleted_at DESC LIMIT ?,
\* as the set of its rows: the tables of the model stay below the limit
SelectDeletedBills(table, userId) == {row \in table : row.user_id = userId}

DefaultLimit == 50
MaxLimit == 100

\* parseInt of a query parameter
parseInt(v) == IF v.t = "string" THEN StringToNumber(v.s) ELSE NaN

\* req.query of GET /api/get-bills
NoQuery == [limit |-> Undef, offset |-> Undef]
ListQueries == {NoQuery, [limit |-> Str("2"), offset |-> Str("1")],
                [limit |-> Str("0"), offset |-> Str("x")]}

\* Math.min(parseInt(req.query.limit) || 50, 100)
LimitOf(q) ==
    LET n == OrElse(parseInt(q.limit), Num(DefaultLimit)).n
    IN IF n < MaxLimit THEN n ELSE MaxLimit

\* parseInt(req.query.offset) || 0
OffsetOf(q) == OrElse(parseInt(q.offset), Num(0)).n

StartList(r, q) ==
    /\ Free(r)
    /\ req' = [req EXCEPT ![r] =
                 IF ~requireAuth THEN Reply(NewReq("list"), 401)
                 ELSE [NewReq("list") EXCEPT !.user = session, !.pc = "select",
                                             !.body = [limit |-> LimitOf(q),
                                                       offset |-> OffsetOf(q)]]]
    /\ UNCHANGED <<store, session>>

Range(seq) == {seq[i] : i \in DOMAIN seq}

ListSelect(r) ==
    /\ req[r].op = "list" /\ req[r].pc = "select"
    /\ \E ok \in BOOLEAN :
         IF ~ok THEN req' = [req EXCEPT ![r] = Reply(@, 500)]
         ELSE \E rows \in SelectUserBills(bills, req[r].user, req[r].body.limit,
                                          req[r].body.offset) :
                req' = [req EXCEPT ![r] =
                          [Reply(@, 200) EXCEPT
                             !.page = [i \in DOMAIN rows |-> WithBillData(rows[i])],
                             !.out = {WithBillData(row) : row \in Range(rows)}]]
    /\ UNCHANGED <<store, session>>

PathEstimateNos == EstimateNos \cup {Str("E9")}

StartGet(r, e) ==
    /\ Free(r)
    /\ LET q == [NewReq("get") EXCEPT !.est = e] IN
       req' = [req EXCEPT ![r] =
                 IF ~requireAuth THEN Reply(q, 401)
                 ELSE IF ~Truthy(e) THEN Reply([q EXCEPT !.user = session], 400)
                 ELSE [q EXCEPT !.user = session, !.pc = "select",
                                !.after = SavedJustBefore(r, session)]]
    /\ UNCHANGED <<store, session>>

GetSelect(r) ==
    /\ req[r].op = "get" /\ req[r].pc = "select"
    /\ \E ok \in BOOLEAN :
         IF ~ok THEN req' = [req EXCEPT ![r] = Reply(@, 500)]
         ELSE \E rows \in LimitOne(SelectBillByEstimate(bills, String(req[r].est),
                                                       req[r].user)) :
                req' = [req EXCEPT ![r] =
                          IF rows = {} THEN Reply(@, 404)
                          ELSE [Reply(@, 200) EXCEPT
                                  !.out = {WithBillData(row) : row \in rows}]]
    /\ UNCHANGED <<store, session>>

StartListDeleted(r) ==
    /\ Free(r)
    /\ req' = [req EXCEPT ![r] =
                 IF ~requireAuth THEN Reply(NewReq("listDeleted"), 401)
                 ELSE [NewReq("listDeleted") EXCEPT !.user = session, !.pc = "select"]]
    /\ UNCHANGED <<store, session>>

ListDeletedSelect(r) ==
    /\ req[r].op = "listDeleted" /\ req[r].pc = "select"
    /\ \E ok \in BOOLEAN :
         req' = [req EXCEPT ![r] =
                   IF ~ok THEN Reply(@, 500)
                   ELSE [Reply(@, 200) EXCEPT
                           !.out = SelectDeletedBills(deleted_bills, req[r].user)]]
    /\ UNCHANGED <<store, session>>

(***************************************************************************)
(* PATCH /api/update-bill                                                  *)
(***************************************************************************)
WireFields ==
    {"estimateNo", "customerName", "customerPhone", "billDate", "items", "subTotal",
     "discount", "grandTotal", "received", "balance", "amountWords"}

\* the keys of an updates object: the wire fields and the keys of a row's
\* identity, which the handler spreads into merged like any other
PatchFields == WireFields \cup {"id", "userId"}

\* an updates object: the fields it does not name are undefined
Patch(f) == [k \in PatchFields |-> IF k \in DOMAIN f THEN f[k] ELSE Undef]

\* the updates member of the body: absent, a text, or an object
NoUpdates == [kind |-> "undefined", f |-> Patch(<<>>)]
TextUpdates == [kind |-> "string", f |-> Patch(<<>>)]
Updates(f) == [kind |-> "object", f |-> Patch(f)]

current(row) ==
    [estimateNo |-> Str(row.estimate_no),
     customerName |-> row.customer_name,
     customerPhone |-> row.customer_phone,
     billDate |-> row.bill_date,
     items |-> parseItems(row.items),
     subTotal |-> toNum(row.sub_total),
     discount |-> toNum(row.discount),
     grandTotal |-> toNum(row.grand_total),
     received |-> toNum(row.received),
     balance |-> toNum(row.balance),
     amountWords |-> OrElse(row.amount_words, Str(""))]

\* fault: the updates are dropped
mergedKeepsCurrent(cur, updates) == cur

\* { ...current, ...updates }
merged(cur, updates) ==
    [k \in PatchFields |-> IF updates[k] # Undef THEN updates[k]
                           ELSE IF k \in DOMAIN cur THEN cur[k] ELSE Undef]

StartUpdate(r, e, u) ==
    /\ Free(r)
    /\ LET q == [NewReq("update") EXCEPT !.est = e, !.body = u] IN
       req' = [req EXCEPT ![r] =
                 IF ~requireAuth THEN Reply(q, 401)
                 ELSE IF ~Truthy(e) \/ u.kind # "object"
                 THEN Reply([q EXCEPT !.user = session], 400)
                 ELSE [q EXCEPT !.user = session, !.pc = "select"]]
    /\ UNCHANGED <<store, session>>

UpdateSelect(r) ==
    /\ req[r].op = "update" /\ req[r].pc = "select"
    /\ \E ok \in BOOLEAN :
         IF ~ok THEN req' = [req EXCEPT ![r] = Reply(@, 500)] /\ UNCHANGED jsonCache
         ELSE \E rows \in LimitOne(SelectBillByEstimate(bills, String(req[r].est),
                                                       req[r].user)) :
                /\ req' = [req EXCEPT ![r] =
                             IF rows = {} THEN Reply(@, 404)
                             ELSE [@ EXCEPT !.rows = rows, !.pc = "write"]]
                /\ jsonCache' =
                     IF rows = {} THEN jsonCache
                     ELSE LET row == CHOOSE x \in rows : TRUE IN
                          toJSONStringSets(parseItemsSets(jsonCache, row.items),
                                           merged(current(row), req[r].body.f).items)
    /\ UNCHANGED <<tables, session>>

UpdateWrite(r) ==
    /\ req[r].op = "update" /\ req[r].pc = "write"
    /\ LET row == CHOOSE x \in req[r].rows : TRUE
           m == merged(current(row), req[r].body.f)
       IN \E ok \in BOOLEAN :
            IF ~ok \/ ~JsonColAccepts(billData(m)[4])
            THEN /\ req' = [req EXCEPT ![r] = Reply(@, 500)]
                 /\ UNCHANGED bills
            ELSE /\ bills' = UpdateBillRows(bills, billData(m), row.id)
                 /\ req' = [req EXCEPT ![r] = [Reply(@, 200) EXCEPT !.rid = row.id]]
    /\ UNCHANGED <<deleted_bills, nextBillId, nextDeletedId, moved, session, estimateNoUnique, jsonCache>>

(***************************************************************************)
(* DELETE /api/delete-bill: move the bill to deleted_bills in a            *)
(* transaction on a connection of its own.                                 *)
(***************************************************************************)
\* deleted_bills: estimate_no, customer_name and user_id are NOT NULL
DeletedBillAccepts(estimateNo, p, userId) ==
    /\ p[1].t \notin {"undefined", "null"}
    /\ JsonColAccepts(p[4])

\* INSERT INTO deleted_bills (original_bill_id, estimate_no, <data columns>, user_id, deleted_at)
InsertDeletedRow(id, originalBillId, estimateNo, p, userId) ==
    [id |-> id, original_bill_id |-> originalBillId, estimate_no |-> estimateNo,
     user_id |-> userId] @@ BillColumns(p)

\* fault: sub_total passed where grand_total belongs
MoveParamsSubTotalTwice(row) ==
    <<row.customer_name, row.customer_phone, row.bill_date, toJSONString(row.items),
      row.sub_total, row.discount, row.sub_total, row.received, row.balance,
      row.amount_words>>

\* the data columns of a row read from either table, as the parameters of the
\* insert into the other
MoveParams(row) ==
    <<row.customer_name, row.customer_phone, row.bill_date, toJSONString(row.items),
      row.sub_total, row.discount, row.grand_total, row.received, row.balance,
      row.amount_words>>

DeleteEstimateNos == EstimateNos \cup {Undef}

\* conn = await db.getConnection()
Acquire(q) == [q EXCEPT !.conn = TRUE, !.acquired = @ + 1]

\* finally { conn.release() }
Release(q) == [q EXCEPT !.conn = FALSE, !.released = @ + 1]

\* fault: the handler without its finally block, the connection released
\* after the response
CatchRollbackThenRelease(q, ok) ==
    IF ok THEN Release([Reply(q, 500) EXCEPT !.tx = NoTx])
    ELSE [q EXCEPT !.pc = "crashed", !.tx = NoTx]

\* catch (err) { await conn.rollback(); ... 500 } finally { conn.release() }
CatchRollback(q, ok) ==
    IF ok THEN Release([Reply(q, 500) EXCEPT !.tx = NoTx])
    ELSE Release([q EXCEPT !.pc = "crashed", !.tx = NoTx])

\* a statement of the try block threw
Thrown(q) == [q EXCEPT !.pc = "rollback"]

StartDelete(r, e) ==
    /\ Free(r)
    /\ nextDeletedId <= MaxDeletedId
    /\ LET q == [NewReq("delete") EXCEPT !.est = e] IN
       req' = [req EXCEPT ![r] =
                 IF ~requireAuth THEN Reply(q, 401)
                 ELSE IF ~Truthy(e) THEN Reply([q EXCEPT !.user = session], 400)
                 ELSE [q EXCEPT !.user = session, !.pc = "getConnection"]]
    /\ UNCHANGED <<store, session>>

DeleteGetConnection(r) ==
    /\ req[r].op = "delete" /\ req[r].pc = "getConnection"
    /\ \E ok \in BOOLEAN :
         req' = [req EXCEPT ![r] =
                   IF ok THEN [Acquire(@) EXCEPT !.pc = "beginTransaction"]
                   ELSE [@ EXCEPT !.pc = "crashed"]]
    /\ UNCHANGED <<store, session>>

DeleteBegin(r) ==
    /\ req[r].op = "delete" /\ req[r].pc = "beginTransaction"
    /\ \E ok \in BOOLEAN :
         req' = [req EXCEPT ![r] = IF ok THEN [@ EXCEPT !.pc = "select"] ELSE Thrown(@)]
    /\ UNCHANGED <<store, session>>

DeleteSelect(r) ==
    /\ req[r].op = "delete" /\ req[r].pc = "select"
    /\ \E ok \in BOOLEAN :
         IF ~ok THEN req' = [req EXCEPT ![r] = Thrown(@)] /\ UNCHANGED jsonCache
         ELSE \E rows \in LimitOne(SelectBillByEstimate(bills, String(req[r].est),
                                                       req[r].user)) :
                /\ req' = [req EXCEPT ![r] =
                             IF rows = {} THEN [@ EXCEPT !.pc = "rollbackNotFound"]
                             ELSE [@ EXCEPT !.rows = rows, !.pc = "insert"]]
                /\ jsonCache' =
                     IF rows = {} THEN jsonCache
                     ELSE toJSONStringSets(jsonCache, (CHOOSE x \in rows : TRUE).items)
    /\ UNCHANGED <<tables, session>>

DeleteNotFound(r) ==
    /\ req[r].op = "delete" /\ req[r].pc = "rollbackNotFound"
    /\ \E ok \in BOOLEAN :
         req' = [req EXCEPT ![r] =
                   IF ok THEN Release([Reply(@, 404) EXCEPT !.tx = NoTx])
                   ELSE Thrown(@)]
    /\ UNCHANGED <<store, session>>

\* fault: the insert made outside the transaction, written at once
DeleteInsertAutocommit(r) ==
    /\ req[r].op = "delete" /\ req[r].pc = "insert"
    /\ LET bill == CHOOSE x \in req[r].rows : TRUE IN
       \E ok \in BOOLEAN :
         IF ~ok \/ ~DeletedBillAccepts(bill.estimate_no, MoveParams(bill), req[r].user)
         THEN /\ req' = [req EXCEPT ![r] = Thrown(@)]
              /\ UNCHANGED <<nextDeletedId, deleted_bills>>
         ELSE /\ deleted_bills' = deleted_bills \cup
                     {InsertDeletedRow(nextDeletedId, bill.id, bill.estimate_no,
                                       MoveParams(bill), req[r].user)}
              /\ req' = [req EXCEPT ![r].pc = "delete"]
              /\ nextDeletedId' = nextDeletedId + 1
    /\ UNCHANGED <<bills, nextBillId, moved, session, estimateNoUnique, jsonCache>>

DeleteInsert(r) ==
    /\ req[r].op = "delete" /\ req[r].pc = "insert"
    /\ LET bill == CHOOSE x \in req[r].rows : TRUE IN
       \E ok \in BOOLEAN :
         IF ~ok \/ ~DeletedBillAccepts(bill.estimate_no, MoveParams(bill), req[r].user)
         THEN /\ req' = [req EXCEPT ![r] = Thrown(@)]
              /\ UNCHANGED nextDeletedId
         ELSE /\ req' = [req EXCEPT
                           ![r].tx.ins = {InsertDeletedRow(nextDeletedId, bill.id,
                                            bill.estimate_no, MoveParams(bill), req[r].user)},
                           ![r].pc = "delete"]
              /\ nextDeletedId' = nextDeletedId + 1
    /\ UNCHANGED <<bills, deleted_bills, nextBillId, moved, session, estimateNoUnique, jsonCache>>

\* fault: a DELETE whose WHERE matches no row
DeleteDeleteNoRow(r) ==
    /\ req[r].op = "delete" /\ req[r].pc = "delete"
    /\ \E ok \in BOOLEAN :
         req' = [req EXCEPT ![r] =
                   IF ok THEN [@ EXCEPT !.tx.del = {}, !.pc = "commit"]
                   ELSE Thrown(@)]
    /\ UNCHANGED <<store, session>>

DeleteDelete(r) ==
    /\ req[r].op = "delete" /\ req[r].pc = "delete"
    /\ LET bill == CHOOSE x \in req[r].rows : TRUE IN
       \E ok \in BOOLEAN :
         req' = [req EXCEPT ![r] =
                   IF ok THEN [@ EXCEPT !.tx.del = {bill.id}, !.pc = "commit"]
                   ELSE Thrown(@)]
    /\ UNCHANGED <<store, session>>

DeleteCommit(r) ==
    /\ req[r].op = "delete" /\ req[r].pc = "commit"
    /\ LET bill == CHOOSE x \in req[r].rows : TRUE IN
       \E ok \in BOOLEAN :
         IF ok
         THEN /\ deleted_bills' = deleted_bills \cup req[r].tx.ins
              /\ bills' = {row \in bills : row.id \notin req[r].tx.del}
              /\ moved' = moved \cup {[deleted |-> d.id, bill |-> row] :
                                        d \in req[r].tx.ins,
                                        row \in {x \in bills : x.id \in req[r].tx.del}}
              /\ req' = [req EXCEPT ![r] =
                           Release([Reply(@, 200) EXCEPT !.rid = bill.id, !.tx = NoTx])]
         ELSE /\ req' = [req EXCEPT ![r] = Thrown(@)]
              /\ UNCHANGED <<bills, deleted_bills, moved>>
    /\ UNCHANGED <<nextBillId, nextDeletedId, session, estimateNoUnique, jsonCache>>

DeleteRollback(r) ==
    /\ req[r].op = "delete" /\ req[r].pc = "rollback"
    /\ \E ok \in BOOLEAN : req' = [req EXCEPT ![r] = CatchRollback(@, ok)]
    /\ UNCHANGED <<store, session>>

(***************************************************************************)
(* POST /api/restore-bill: move the deleted bill back in a transaction.    *)
(***************************************************************************)
\* the body { "id": { "id": 1 } }: an id that is an object
IdObject == Native("{\"id\":1}")

\* "id = ?" of a row, the parameter as the driver writes it into the statement:
\* a number as the number, and an object as `key` = value, so that with
\* IdObject the condition reads id = `id` = 1 and holds of every row
IdEquals(rowId, id) ==
    CASE id.t = "number" -> rowId = id.n
      [] id = IdObject -> TRUE
      [] OTHER -> FALSE

\* SELECT * FROM deleted_bills WHERE id = ? AND user_id = ? LIMIT 1
SelectDeletedById(table, id, userId) ==
    {row \in table : IdEquals(row.id, id) /\ row.user_id = userId}

IdInputs == {Num(k) : k \in 1..MaxDeletedId} \cup {Undef, IdObject}

\* a restore is taken while ids are left under the bound, or where the store
\* is bound to refuse its insert
StartRestore(r, id) ==
    /\ Free(r)
    /\ \/ nextBillId <= MaxBillId
       \/ /\ SelectDeletedById(deleted_bills, id, session) # {}
          /\ \A d \in SelectDeletedById(deleted_bills, id, session) :
                DuplicateKey(d.estimate_no)
    /\ LET q == [NewReq("restore") EXCEPT !.id = id] IN
       req' = [req EXCEPT ![r] =
                 IF ~requireAuth THEN Reply(q, 401)
                 ELSE IF ~Truthy(id) THEN Reply([q EXCEPT !.user = session], 400)
                 ELSE [q EXCEPT !.user = session, !.pc = "getConnection"]]
    /\ UNCHANGED <<store, session>>

RestoreGetConnection(r) ==
    /\ req[r].op = "restore" /\ req[r].pc = "getConnection"
    /\ \E ok \in BOOLEAN :
         req' = [req EXCEPT ![r] =
                   IF ok THEN [Acquire(@) EXCEPT !.pc = "beginTransaction"]
                   ELSE [@ EXCEPT !.pc = "crashed"]]
    /\ UNCHANGED <<store, session>>

RestoreBegin(r) ==
    /\ req[r].op = "restore" /\ req[r].pc = "beginTransaction"
    /\ \E ok \in BOOLEAN :
         req' = [req EXCEPT ![r] = IF ok THEN [@ EXCEPT !.pc = "select"] ELSE Thrown(@)]
    /\ UNCHANGED <<store, session>>

RestoreSelect(r) ==
    /\ req[r].op = "restore" /\ req[r].pc = "select"
    /\ \E ok \in BOOLEAN :
         IF ~ok THEN req' = [req EXCEPT ![r] = Thrown(@)] /\ UNCHANGED jsonCache
         ELSE \E rows \in LimitOne(SelectDeletedById(deleted_bills, req[r].id,
                                                    req[r].user)) :
                /\ req' = [req EXCEPT ![r] =
                             IF rows = {} THEN [@ EXCEPT !.pc = "rollbackNotFound"]
                             ELSE [@ EXCEPT !.rows = rows, !.pc = "insert"]]
                /\ jsonCache' =
                     IF rows = {} THEN jsonCache
                     ELSE toJSONStringSets(jsonCache, (CHOOSE x \in rows : TRUE).items)
    /\ UNCHANGED <<tables, session>>

RestoreNotFound(r) ==
    /\ req[r].op = "restore" /\ req[r].pc = "rollbackNotFound"
    /\ \E ok \in BOOLEAN :
         req' = [req EXCEPT ![r] =
                   IF ok THEN Release([Reply(@, 404) EXCEPT !.tx = NoTx])
                   ELSE Thrown(@)]
    /\ UNCHANGED <<store, session>>

\* fault: a restore that looks for an active bill of the same owner and
\* estimate number, and gives up where there is one
RestoreInsertUnlessActive(r) ==
    /\ req[r].op = "restore" /\ req[r].pc = "insert"
    /\ LET d == CHOOSE x \in req[r].rows : TRUE IN
       \E ok \in BOOLEAN :
         IF \/ ~ok \/ ~JsonColAccepts(MoveParams(d)[4]) \/ DuplicateKey(d.estimate_no)
            \/ SelectBillByEstimate(bills, d.estimate_no, req[r].user) # {}
         THEN /\ req' = [req EXCEPT ![r] = Thrown(@)]
              /\ UNCHANGED nextBillId
         ELSE /\ req' = [req EXCEPT
                           ![r].tx.ins = {InsertBillRow(nextBillId, d.estimate_no,
                                                        MoveParams(d), req[r].user)},
                           ![r].rid = nextBillId,
                           ![r].pc = "delete"]
              /\ nextBillId' = nextBillId + 1
    /\ UNCHANGED <<bills, deleted_bills, nextDeletedId, moved, session, estimateNoUnique, jsonCache>>

RestoreInsert(r) ==
    /\ req[r].op = "restore" /\ req[r].pc = "insert"
    /\ LET d == CHOOSE x \in req[r].rows : TRUE IN
       \E ok \in BOOLEAN :
         IF ~ok \/ ~JsonColAccepts(MoveParams(d)[4]) \/ DuplicateKey(d.estimate_no)
         THEN /\ req' = [req EXCEPT ![r] = Thrown(@)]
              /\ UNCHANGED nextBillId
         ELSE /\ req' = [req EXCEPT
                           ![r].tx.ins = {InsertBillRow(nextBillId, d.estimate_no,
                                                        MoveParams(d), req[r].user)},
                           ![r].rid = nextBillId,
                           ![r].pc = "delete"]
              /\ nextBillId' = nextBillId + 1
    /\ UNCHANGED <<bills, deleted_bills, nextDeletedId, moved, session, estimateNoUnique, jsonCache>>

\* fault: the DELETE of the restored entry matches no row
RestoreDeleteNoRow(r) ==
    /\ req[r].op = "restore" /\ req[r].pc = "delete"
    /\ \E ok \in BOOLEAN :
         req' = [req EXCEPT ![r] = IF ok THEN [@ EXCEPT !.pc = "commit"] ELSE Thrown(@)]
    /\ UNCHANGED <<store, session>>

RestoreDelete(r) ==
    /\ req[r].op = "restore" /\ req[r].pc = "delete"
    /\ \E ok \in BOOLEAN :
         req' = [req EXCEPT ![r] =
                   IF ok THEN [@ EXCEPT !.tx.del = {row.id : row \in
                                   {x \in deleted_bills : IdEquals(x.id, req[r].id)}},
                                 !.pc = "commit"]
                   ELSE Thrown(@)]
    /\ UNCHANGED <<store, session>>

RestoreCommit(r) ==
    /\ req[r].op = "restore" /\ req[r].pc = "commit"
    /\ \E ok \in BOOLEAN :
         IF ok
         THEN /\ bills' = bills \cup req[r].tx.ins
              /\ deleted_bills' = {row \in deleted_bills : row.id \notin req[r].tx.del}
              /\ moved' = {m \in moved : m.deleted \in {row.id : row \in deleted_bills'}}
              /\ req' = [req EXCEPT ![r] =
                           Release([Reply(@, 200) EXCEPT !.tx = NoTx])]
         ELSE /\ req' = [req EXCEPT ![r] = Thrown(@)]
              /\ UNCHANGED <<bills, deleted_bills, moved>>
    /\ UNCHANGED <<nextBillId, nextDeletedId, session, estimateNoUnique, jsonCache>>

RestoreRollback(r) ==
    /\ req[r].op = "restore" /\ req[r].pc = "rollback"
    /\ \E ok \in BOOLEAN : req' = [req EXCEPT ![r] = CatchRollback(@, ok)]
    /\ UNCHANGED <<store, session>>

(***************************************************************************)
(* DELETE /api/permanent-delete-bill                                       *)
(***************************************************************************)
StartPurge(r, id) ==
    /\ Free(r)
    /\ LET q == [NewReq("purge") EXCEPT !.id = id] IN
       req' = [req EXCEPT ![r] =
                 IF ~requireAuth THEN Reply(q, 401)
                 ELSE IF ~Truthy(id) THEN Reply([q EXCEPT !.user = session], 400)
                 ELSE [q EXCEPT !.user = session, !.pc = "delete"]]
    /\ UNCHANGED <<store, session>>

\* DELETE FROM deleted_bills WHERE id = ? AND user_id = ?
PurgeDelete(r) ==
    /\ req[r].op = "purge" /\ req[r].pc = "delete"
    /\ LET hit == SelectDeletedById(deleted_bills, req[r].id, req[r].user) IN
       \E ok \in BOOLEAN :
         IF ~ok
         THEN /\ req' = [req EXCEPT ![r] = Reply(@, 500)]
              /\ UNCHANGED <<deleted_bills, moved>>
         ELSE /\ deleted_bills' = deleted_bills \ hit
              /\ moved' = {m \in moved : m.deleted \in {row.id : row \in deleted_bills'}}
              /\ req' = [req EXCEPT ![r] = Reply(@, IF hit = {} THEN 404 ELSE 200)]
    /\ UNCHANGED <<bills, nextBillId, nextDeletedId, session, estimateNoUnique, jsonCache>>

(***************************************************************************)
(* The server: requests arrive and handlers advance, one step at a time.   *)
(***************************************************************************)
\* the store-facing steps of the handlers
Advance(r) ==
    \/ SaveSelect(r)
    \/ SaveWrite(r)
    \/ ListSelect(r)
    \/ GetSelect(r)
    \/ UpdateSelect(r)
    \/ UpdateWrite(r)
    \/ DeleteGetConnection(r)
    \/ DeleteBegin(r)
    \/ DeleteSelect(r)
    \/ DeleteNotFound(r)
    \/ DeleteInsert(r)
    \/ DeleteDelete(r)
    \/ DeleteCommit(r)
    \/ DeleteRollback(r)
    \/ ListDeletedSelect(r)
    \/ RestoreGetConnection(r)
    \/ RestoreBegin(r)
    \/ RestoreSelect(r)
    \/ RestoreNotFound(r)
    \/ RestoreInsert(r)
    \/ RestoreDelete(r)
    \/ RestoreCommit(r)
    \/ RestoreRollback(r)
    \/ PurgeDelete(r)

\* the requests of the lifecycle specification: every operation, few bodies
LifecycleLogins ==
    {<<Str(" Admin@X.io "), Str("secret")>>, <<Str("eve@x.io"), Str("secret")>>,
     <<Str(" Admin@X.io "), Str("guess")>>, <<Undef, Str("secret")>>,
     <<Str(" Admin@X.io "), Undef>>, <<Num(5), Str("secret")>>}

LifecycleSaves ==
    {Full(Str("E1"), Str("Acme")), Odd(Str("E1"), Str("Bob")),
     Minimal(Str("E1"), Str("Acme")),
     Minimal(Str("E2"), Num(0)), BadItems(Str("E1"), Str("Acme")),
     ScalarItems(Str("E2"), Str("Acme")),
     Minimal(Str("E1"), Str("  ")), Minimal(Str("E1"), Undef),
     Full(Str("  "), Str("Acme")), Full(Undef, Str("Acme"))}

LifecycleUpdates ==
    {<<Str("E2"), Updates([customerName |-> Str(""), customerPhone |-> Str("7"),
                           subTotal |-> Str("3"), received |-> Null,
                           estimateNo |-> Str("E1"), id |-> Num(9),
                           userId |-> Str("legacy")])>>,
     <<Str("E9"), Updates(<<>>)>>,
     <<Str("E1"), NoUpdates>>,
     <<Str("E1"), Updates([items |-> Str("not json")])>>}

Next ==
    \E r \in Slots :
        \/ \E c \in LifecycleLogins : Login(r, c[1], c[2])
        \/ Logout(r)
        \/ \E b \in LifecycleSaves : StartSave(r, b)
        \/ StartList(r, NoQuery)
        \/ \E e \in PathEstimateNos : StartGet(r, e)
        \/ \E b \in LifecycleUpdates : StartUpdate(r, b[1], b[2])
        \/ \E e \in DeleteEstimateNos : StartDelete(r, e)
        \/ StartListDeleted(r)
        \/ \E id \in IdInputs : StartRestore(r, id)
        \/ \E id \in IdInputs : StartPurge(r, id)
        \/ Advance(r)

Spec == Init /\ [][Next]_vars

(***************************************************************************)
(* The listing on its own: GET /api/get-bills over tables whose rows bear  *)
(* any stamps, small tables of two owners and tables of one owner around   *)
(* the default limit.                                                      *)
(***************************************************************************)
MaxListed == 3
MaxStamp == 1

Listed(id, userId, updated, created) ==
    [InsertBillRow(id, ToString(id), billData(Minimal(Str(ToString(id)), Str("Acme"))),
                   userId)
       EXCEPT !.updated_at = updated, !.created_at = created]

SmallTables ==
    UNION {{{Listed(k, own[k], st[k][1], st[k][2]) : k \in 1..n} :
              own \in [1..n -> Owners], st \in [1..n -> (0..MaxStamp) \X (0..MaxStamp)]} :
             n \in 0..MaxListed}

LargeTables ==
    {{Listed(k, "admin", k % 3, k) : k \in 1..n} : n \in {DefaultLimit, DefaultLimit + 1}}

InitList ==
    /\ bills \in SmallTables \cup LargeTables
    /\ deleted_bills = {}
    /\ nextBillId = Cardinality(bills) + 1
    /\ nextDeletedId = 1
    /\ estimateNoUnique = FALSE
    /\ session = "admin"
    /\ req = [r \in Slots |-> Idle]
    /\ moved = {}
    /\ jsonCache = {}

NextList ==
    \E r \in Slots :
        \/ \E q \in ListQueries : StartList(r, q)
        \/ ListSelect(r)

ListSpec == InitList /\ [][NextList]_vars

(***************************************************************************)
(* The codec on its own: toJSONString and parseItems called in any order   *)
(* on any value, sharing jsonCache.                                        *)
(***************************************************************************)
CodecValues ==
    {Undef, Null, Num(0), Num(5), NaN, Str(""), Str("not json"),
     Native("[]"), Native("[1]"), Native("[2]")} \cup {Str(t) : t \in JsonTexts}

CallToJSONString(val) ==
    /\ jsonCache' = toJSONStringSets(jsonCache, val)
    /\ UNCHANGED <<tables, session, req>>

CallParseItems(val) ==
    /\ jsonCache' = parseItemsSets(jsonCache, val)
    /\ UNCHANGED <<tables, session, req>>

InitCodec ==
    /\ bills = {} /\ deleted_bills = {}
    /\ nextBillId = 1 /\ nextDeletedId = 1
    /\ estimateNoUnique = FALSE
    /\ session = NoUser
    /\ req = [r \in Slots |-> Idle]
    /\ moved = {}
    /\ jsonCache = {}

NextCodec ==
    \E val \in CodecValues :
        \/ CallToJSONString(val)
        \/ CallParseItems(val)

CodecSpec == InitCodec /\ [][NextCodec]_vars

(***************************************************************************)
(* Two requests in flight at once.  The store holds one bill "E1" and one  *)
(* deleted bill, as a save and soft delete of "E2" and a save of "E1"      *)
(* leave them; each of two clients of the session sends one write request  *)
(* and the two handlers advance in any order.  A statement takes effect    *)
(* when it is executed (of a transaction: when that is committed); one     *)
(* that would wait for a row lock is taken at the moment the lock is       *)
(* granted.                                                                *)
(***************************************************************************)
Racers == {1, 2}

RaceDeletedBill ==
    InsertBillRow(1, "E2", billData(ScalarItems(Str("E2"), Str("Acme"))), "admin")

RaceDeleted == InsertDeletedRow(1, 1, "E2", MoveParams(RaceDeletedBill), "admin")

RaceBill == InsertBillRow(2, "E1", billData(Minimal(Str("E1"), Str("Acme"))), "admin")

RaceSaves == {Full(Str("E1"), Str("Acme")), Odd(Str("E1"), Str("Bob"))}

RaceUpdates == {<<Str("E1"), Updates([customerPhone |-> Str("7")])>>}

InitRace ==
    /\ bills = {RaceBill}
    /\ deleted_bills = {RaceDeleted}
    /\ nextBillId = 3
    /\ nextDeletedId = 2
    /\ estimateNoUnique = FALSE
    /\ session = "admin"
    /\ req = [r \in Racers |-> Idle]
    /\ moved = {[deleted |-> 1, bill |-> RaceDeletedBill]}
    /\ jsonCache = {}

\* the store-facing steps of the handlers that write
AdvanceWrite(r) ==
    \/ SaveSelect(r)
    \/ SaveWrite(r)
    \/ UpdateSelect(r)
    \/ UpdateWrite(r)
    \/ DeleteGetConnection(r)
    \/ DeleteBegin(r)
    \/ DeleteSelect(r)
    \/ DeleteNotFound(r)
    \/ DeleteInsert(r)
    \/ DeleteDelete(r)
    \/ DeleteCommit(r)
    \/ DeleteRollback(r)
    \/ RestoreGetConnection(r)
    \/ RestoreBegin(r)
    \/ RestoreSelect(r)
    \/ RestoreNotFound(r)
    \/ RestoreInsert(r)
    \/ RestoreDelete(r)
    \/ RestoreCommit(r)
    \/ RestoreRollback(r)
    \/ PurgeDelete(r)

NextRace ==
    \E r \in Racers :
        \/ /\ req[r].pc = "idle"
           /\ \/ \E b \in RaceSaves : StartSave(r, b)
              \/ \E u \in RaceUpdates : StartUpdate(r, u[1], u[2])
              \/ StartDelete(r, Str("E1"))
              \/ StartRestore(r, Num(1))
              \/ StartPurge(r, Num(1))
        \/ AdvanceWrite(r)

RaceSpec == InitRace /\ [][NextRace]_vars

(***************************************************************************)
(* Properties.                                                             *)
(***************************************************************************)
\* the step is a step of request r
StepOf(r) == req'[r] # req[r]

\* the step is the arrival of a new request in slot r
Arrives(r) == Free(r) /\ StepOf(r)

Finished(r, op, code) == req[r].op = op /\ req[r].pc = "done" /\ req[r].status = code

OwnedBy(table, userId) == {row \in table : row.user_id = userId}

BillOps == {"save", "list", "get", "update", "delete", "listDeleted", "restore", "purge"}

(* C1: in every reachable state the bills table holds at most one row for
   each (ownerId, estimateNo) pair. *)
C1_OneBillPerOwnerAndEstimateNo ==
    \A a \in bills, b \in bills :
        (a.user_id = b.user_id /\ a.estimate_no = b.estimate_no) => a = b

(* C2: softDelete is atomic.  Only the step that commits changes the tables,
   and it removes the bill and adds its deleted row together; every other
   step of the request, a failed statement and the rollback included, leaves
   both tables as they were, so that a request that ended without success
   leaves the bill it read in bills and no deleted row made from it. *)
C2_SoftDeleteAtomic ==
    /\ [](\A r \in Slots :
            (req[r].op = "delete" /\ req[r].pc \in {"rollback", "done", "crashed"}
             /\ req[r].status # 200)
            => \A bill \in req[r].rows :
                 /\ bill \in bills
                 /\ \A d \in deleted_bills : d.original_bill_id # bill.id)
    /\ [][\A r \in Slots :
            (req'[r].op = "delete" /\ StepOf(r))
            => IF req'[r].pc = "done" /\ req'[r].status = 200
               THEN \E bill \in bills : \E d \in deleted_bills' :
                      /\ bills' = bills \ {bill}
                      /\ d \notin deleted_bills
                      /\ deleted_bills' = deleted_bills \cup {d}
                      /\ d.original_bill_id = bill.id
                      /\ d.user_id = bill.user_id
               ELSE bills' = bills /\ deleted_bills' = deleted_bills]_vars

\* the insert into deleted_bills was done and a later statement then failed
C2_Witness ==
    \E r \in Slots :
        /\ req[r].op = "delete" /\ req[r].pc = "rollback"
        /\ req[r].tx.ins # {}

(* C3: no bill is in both tables: no row of bills has the id that a row of
   deleted_bills names as its original_bill_id, and after a successful
   restore the restored row is no longer in deleted_bills. *)
C3_NeverInBothTables ==
    /\ \A b \in bills, d \in deleted_bills : d.original_bill_id # b.id
    /\ \A r \in Slots :
         Finished(r, "restore", 200)
         => \A d \in deleted_bills : ~IdEquals(d.id, req[r].id)

C3_Witness ==
    \E r \in Slots :
        /\ Finished(r, "restore", 200)
        /\ \E b \in bills : b.id = req[r].rid
        /\ deleted_bills # {}

\* the rows a request reads, returns or writes are rows of the identity it
\* runs as, and a request that found a row to act on found a row of its own
ScopedReads ==
    \A r \in Slots :
        /\ \A row \in req[r].rows \cup req[r].out \cup req[r].tx.ins :
             row.user_id = req[r].user
        /\ (req[r].op \in {"update", "delete", "restore"} /\ req[r].pc = "done"
            /\ req[r].status = 200) => req[r].rows # {}
        /\ Finished(r, "get", 200) => req[r].out # {}

\* the step of request r changes no row of another identity, and a purge
\* that succeeds found a row of its own
ScopedStep(r) ==
    /\ \A u \in Owners \ {req'[r].user} :
         /\ OwnedBy(bills', u) = OwnedBy(bills, u)
         /\ OwnedBy(deleted_bills', u) = OwnedBy(deleted_bills, u)
    /\ (req'[r].op = "purge" /\ req'[r].pc = "done" /\ req'[r].status = 200)
       => \E d \in OwnedBy(deleted_bills, req'[r].user) : IdEquals(d.id, req'[r].id)

(* C4: owner scoping.  The rows a request reads, returns or writes are rows
   of the identity it runs as; a request that found a row to act on found a
   row of its own; and no step of a request changes or removes a row of
   another identity in either table. *)
C4_OwnerScoping ==
    /\ []ScopedReads
    /\ [][\A r \in Slots : StepOf(r) => ScopedStep(r)]_vars

\* what does hold: the same of the requests whose id is not an object
OwnerScopingOfScalarIds ==
    /\ []ScopedReads
    /\ [][\A r \in Slots : (StepOf(r) /\ req'[r].id.t # "object") => ScopedStep(r)]_vars

(* C5: a bill operation that arrives without a session identity is answered
   401 at once, valid body or not, and changes neither table. *)
C5_NoSessionIs401 ==
    [][\A r \in Slots :
         (Arrives(r) /\ req'[r].op \in BillOps /\ session = NoUser)
         => /\ req'[r].pc = "done"
            /\ req'[r].status = 401
            /\ UNCHANGED <<bills, deleted_bills, nextBillId, nextDeletedId>>]_vars

\* a save with an invalid body, without a session: 401 and not 400
C5_Witness ==
    \E r \in Slots :
        /\ Finished(r, "save", 401)
        /\ validateBillInput(req[r].body) # {}
        /\ bills # {}

Absent(v) == v.t \in {"undefined", "null"}

Blank(v) == Absent(v) \/ (v.t = "string" /\ v.s \in {"", " ", "  "})

(* C6: a save that is answered 200 wrote exactly one row of bills: when the
   identity had a row with that estimateNo, that row, same id, with the data
   of the request, and the answer says "updated" with its id; otherwise a new
   row with a fresh id, and the answer says "inserted" with that id.  Every
   other row of bills and all of deleted_bills are as before, and a save that
   is not answered 200 wrote nothing. *)
C6_SaveWritesOneRow ==
    [][\A r \in Slots :
         (req[r].op = "save" /\ req[r].pc = "write" /\ StepOf(r))
         => LET b == req[r].body
                e == String(b.estimateNo)
                u == req[r].user
                had == {x \in bills : x.user_id = u /\ x.estimate_no = e}
                written(x) == /\ x.user_id = u /\ x.estimate_no = e
                              /\ Data(x) = BillColumns(billData(b))
            IN /\ deleted_bills' = deleted_bills
               /\ IF req'[r].status # 200 THEN bills' = bills
                  ELSE IF had # {}
                  THEN \E old \in had : \E new \in bills' :
                         /\ bills' = (bills \ {old}) \cup {new}
                         /\ new.id = old.id /\ written(new)
                         /\ req'[r].action = "updated" /\ req'[r].rid = old.id
                  ELSE \E new \in bills' :
                         /\ new.id \notin {x.id : x \in bills}
                         /\ bills' = bills \cup {new}
                         /\ written(new)
                         /\ req'[r].action = "inserted" /\ req'[r].rid = new.id]_vars

\* an update of one row among several, and an insert next to other rows
C6_Witness ==
    \E r \in Slots :
        /\ Finished(r, "save", 200)
        /\ req[r].action = "updated"
        /\ Cardinality(bills) >= 2
        /\ \E x \in bills : x.id = req[r].rid /\ x.items = Native("[1]")

(* C7: save is idempotent.  A save repeated with the same body right after
   it succeeded, when it succeeds again, reports "updated", leaves the
   identity with as many rows as before, and leaves the row the first save
   wrote as it was, the row it wrote itself holding the same data. *)
C7_SaveTwiceIsIdempotent ==
    [][\A r \in Slots :
         (req[r].op = "save" /\ req[r].pc = "write" /\ StepOf(r)
          /\ req[r].after # NoBody /\ req[r].after.body = req[r].body
          /\ req'[r].status = 200)
         => /\ req'[r].action = "updated"
            /\ Cardinality(OwnedBy(bills', req[r].user))
                 = Cardinality(OwnedBy(bills, req[r].user))
            /\ \E first \in bills :
                 /\ first.id = req[r].after.rid
                 /\ first \in bills'
                 /\ \E second \in bills' :
                      /\ second.id = req'[r].rid
                      /\ Data(second) = Data(first)]_vars

\* the second of two equal saves done, on a bill whose fields the codec coerced
C7_Witness ==
    \E r \in Slots :
        /\ Finished(r, "save", 200)
        /\ req[r].after # NoBody /\ req[r].after.body = req[r].body
        /\ req[r].action = "updated"
        /\ req[r].body.items = Str("[ 1 ]")

\* what a read gives back for a text field saved as v
ReadsBackText(v, got) ==
    /\ v.t = "string" => got = v
    /\ Absent(v) => got = Str("")

\* the bill read has the fields of the body b saved, a monetary field v read
\* back as Coerced(v)
ReadsBack(b, got, Coerced(_)) ==
    /\ got.estimateNo = b.estimateNo
    /\ got.customerName = b.customerName
    /\ ReadsBackText(b.customerPhone, got.customerPhone)
    /\ ReadsBackText(b.amountWords, got.amountWords)
    /\ got.items = parseItems(toJSONString(b.items))
    /\ got.subTotal = Coerced(b.subTotal)
    /\ got.discount = Coerced(b.discount)
    /\ got.grandTotal = Coerced(b.grandTotal)
    /\ got.received = Coerced(b.received)
    /\ got.balance = Coerced(b.balance)

\* toNum of the input, to the cent
ToTheCent(v) == Num(RoundToCent(toNum(v).n))

\* the get that follows a successful save of a bill whose key fields are text,
\* for the estimateNo saved
GetAfterSave(r) ==
    /\ Finished(r, "get", 200)
    /\ req[r].after # NoBody
    /\ req[r].after.body.estimateNo.t = "string"
    /\ req[r].after.body.customerName.t = "string"
    /\ req[r].est = req[r].after.body.estimateNo

OneRowFor(r) == Cardinality(SelectBillByEstimate(bills, req[r].est.s, req[r].user)) = 1

(* C8: a get for the estimateNo of the bill the identity has just saved
   returns a bill whose fields are the ones saved: the text fields with ""
   for an absent one, items parsed, and each monetary field the number toNum
   makes of the input, here compared to the cent, the precision of the
   column. *)
C8_GetReturnsWhatWasSaved ==
    \A r \in Slots :
        GetAfterSave(r)
        => \A row \in req[r].out :
             ReadsBack(req[r].after.body, row.billData.json, ToTheCent)

\* the same with each monetary field the very number toNum makes of the
\* input: a number with half a cent in it does not read back either
GetReturnsWhatWasSavedExactly ==
    \A r \in Slots :
        (GetAfterSave(r) /\ OneRowFor(r))
        => \A row \in req[r].out :
             ReadsBack(req[r].after.body, row.billData.json, toNum)

\* what does hold: the fields saved, to the cent, are read back by an
\* identity that has one row for that estimateNo, unless the items saved are
\* the text of a falsy scalar, which the JSON column hands back as that scalar
\* and parseItems then replaces by []
GetReturnsWhatWasSavedWhenOneRow ==
    \A r \in Slots :
        (GetAfterSave(r) /\ OneRowFor(r)
           /\ Truthy(parseItems(toJSONString(req[r].after.body.items))))
        => \A row \in req[r].out :
             ReadsBack(req[r].after.body, row.billData.json, ToTheCent)

(* C9: the bill that a successful restore of the deleted row of a given id
   adds to bills has the identity, the estimateNo and the data of the bill
   that the soft delete moved into that deleted row, and that deleted row is
   gone. *)
C9_RestoreGivesBackTheBill ==
    [][\A r \in Slots :
         (req[r].op = "restore" /\ req[r].pc = "commit" /\ StepOf(r)
          /\ req[r].id.t = "number"
          /\ req'[r].pc = "done" /\ req'[r].status = 200)
         => /\ \E m \in moved : m.deleted = req[r].id.n
            /\ \A m \in moved :
                 m.deleted = req[r].id.n
                 => \E new \in bills' \ bills :
                      /\ bills' = bills \cup {new}
                      /\ new.user_id = m.bill.user_id
                      /\ new.estimate_no = m.bill.estimate_no
                      /\ Data(new) = Data(m.bill)
                      /\ new.id = req'[r].rid
            /\ \A d \in deleted_bills' : d.id # req[r].id.n]_vars

\* the data of a bill as a soft delete copies it: toJSONString writes items
\* that are null as []
DataAsMoved(row) == [Data(row) EXCEPT !.items = IF @ = Null THEN Native("[]") ELSE @]

\* what does hold: the restored bill has the owner, the estimate number and
\* the data of the bill that was moved, but for items that were null, and
\* the deleted row is gone
RestoreGivesBackTheBillAsMoved ==
    [][\A r \in Slots :
         (req[r].op = "restore" /\ req[r].pc = "commit" /\ StepOf(r)
          /\ req[r].id.t = "number"
          /\ req'[r].pc = "done" /\ req'[r].status = 200)
         => /\ \E m \in moved : m.deleted = req[r].id.n
            /\ \A m \in moved :
                 m.deleted = req[r].id.n
                 => \E new \in bills' \ bills :
                      /\ bills' = bills \cup {new}
                      /\ new.user_id = m.bill.user_id
                      /\ new.estimate_no = m.bill.estimate_no
                      /\ Data(new) = DataAsMoved(m.bill)
                      /\ new.id = req'[r].rid
            /\ \A d \in deleted_bills' : d.id # req[r].id.n]_vars

\* a bill whose items were null has come back with items []
RestoreGivesBackTheBillAsMoved_Witness ==
    \E r \in Slots :
        /\ Finished(r, "restore", 200)
        /\ \E m \in moved : \E b \in bills :
              /\ b.id = req[r].rid /\ m.bill.items = Null /\ b.items = Native("[]")
              /\ m.bill.estimate_no = b.estimate_no

\* a restored bill with every field given
C9_Witness ==
    \E r \in Slots :
        /\ Finished(r, "restore", 200)
        /\ \E b \in bills : /\ b.id = req[r].rid
                             /\ b.received = Str("4") /\ b.balance = Str("6")
                             /\ b.items = Native("[1]")

(* C10: a save by a signed-in identity whose estimateNo or customerName is
   absent, empty or only blanks is answered 400 at once and writes nothing. *)
C10_BlankKeyFieldsAre400 ==
    [][\A r \in Slots :
         (Arrives(r) /\ req'[r].op = "save" /\ session # NoUser
          /\ (Blank(req'[r].body.estimateNo) \/ Blank(req'[r].body.customerName)))
         => /\ req'[r].pc = "done"
            /\ req'[r].status = 400
            /\ UNCHANGED <<bills, deleted_bills, nextBillId, nextDeletedId>>]_vars

\* a customerName of blanks only, refused
C10_Witness ==
    \E r \in Slots :
        /\ Finished(r, "save", 400)
        /\ req[r].body.customerName = Str("  ")
        /\ ~Blank(req[r].body.estimateNo)

\* the column that keeps each mutable field of a bill
ColumnOf ==
    [customerName |-> "customer_name", customerPhone |-> "customer_phone",
     billDate |-> "bill_date", items |-> "items", subTotal |-> "sub_total",
     discount |-> "discount", grandTotal |-> "grand_total", received |-> "received",
     balance |-> "balance", amountWords |-> "amount_words"]

MutableFields == DOMAIN ColumnOf

\* the step is a successful write of an update
UpdateWrites(r) ==
    /\ req[r].op = "update" /\ req[r].pc = "write" /\ StepOf(r)
    /\ req'[r].status = 200

Kept(col, v) == v

\* stored items that are null, 0, false or "" come back as the empty sequence
KeptAsRead(col, v) == IF col = "items" /\ ~Truthy(v) THEN Native("[]") ELSE v

\* one row of the caller changes: a column whose field the updates name holds
\* what a save of that value stores, every other column holds Keeps of what
\* it held
MergedInto(r, Keeps(_, _)) ==
    LET u == req[r].body.f
        asSaved == BillColumns(billData(u))
    IN /\ deleted_bills' = deleted_bills
       /\ \E old \in bills : \E new \in bills' :
            /\ bills' = (bills \ {old}) \cup {new}
            /\ old.user_id = req[r].user /\ old.estimate_no = String(req[r].est)
            /\ new.id = old.id /\ new.id = req'[r].rid
            /\ new.user_id = old.user_id /\ new.estimate_no = old.estimate_no
            /\ \A k \in MutableFields :
                 new[ColumnOf[k]] = IF u[k] # Undef THEN asSaved[ColumnOf[k]]
                                    ELSE Keeps(ColumnOf[k], old[ColumnOf[k]])

(* C11: an update of an existing bill writes, for every mutable field, the
   caller's value when the updates name the field and the row's current
   value otherwise, normalised as save normalises it; the fields the updates
   do not name hold after the update what they held before it. *)
C11_UpdateMergesFields ==
    [][\A r \in Slots : UpdateWrites(r) => MergedInto(r, Kept)]_vars

(* C11 as the code has it: the same, except that items the updates do not
   name and that the row holds as a falsy JSON value (0, false, "", null) are
   written back as the empty sequence. *)
C11_UpdateMergesFieldsAsRead ==
    [][\A r \in Slots : UpdateWrites(r) => MergedInto(r, KeptAsRead)]_vars

\* an update that names four fields has rewritten a row: the subTotal to
\* the cent, the phone and the name as given, the received amount as save
\* writes null, and the date, the discount and the items as they were read
C11_Witness ==
    \E r \in Slots :
        /\ Finished(r, "update", 200)
        /\ req[r].body.f.subTotal = Str("3")
        /\ \E x \in bills : /\ x.id = req[r].rid /\ x.estimate_no = "E2"
                            /\ x.sub_total = Str("4") /\ x.customer_phone = Str("7")
                            /\ x.received = Str("0")
                            /\ x.customer_name = Str("")
                            /\ x.bill_date = Null /\ x.discount = Str("0")
                            /\ x.items = Native("[]")

\* the rows of deleted_bills that have the id and the owner of request r
DeletedRowsNamedBy(r) ==
    {d \in deleted_bills :
        req[r].id.t = "number" /\ d.id = req[r].id.n /\ d.user_id = req[r].user}

\* keys are handed out in ascending order: what was assigned is below the counter
AssignedBillIds == 1..(nextBillId - 1)

KeysWereAssigned ==
    /\ \A b \in bills : b.id \in AssignedBillIds
    /\ \A d \in deleted_bills : d.original_bill_id \in AssignedBillIds \cup {0}

\* a restore that finds no row named by the request does not go on to insert,
\* and one that answers 404 has written nothing
RestoreNotFound404(r) ==
    /\ (req[r].pc = "select" /\ DeletedRowsNamedBy(r) = {}) => req'[r].pc # "insert"
    /\ req'[r].status = 404
         => /\ req[r].tx = NoTx
            /\ UNCHANGED <<bills, deleted_bills, nextBillId, nextDeletedId>>

\* the row a restore inserts has the next key of the counter, which no bill had
RestoreKeyIsFresh(r) ==
    /\ req[r].pc = "insert" /\ req'[r].pc = "delete"
         => /\ req'[r].rid = nextBillId /\ nextBillId' = nextBillId + 1
            /\ req'[r].rid \notin AssignedBillIds
            /\ \A d \in req[r].rows : d.original_bill_id # req'[r].rid
            /\ \A x \in req'[r].tx.ins : x.id = req'[r].rid
    /\ req[r].pc = "commit" /\ req'[r].status = 200
         => \E new \in bills' :
              /\ bills' = bills \cup {new} /\ new \notin bills
              /\ new.id = req[r].rid
              /\ new.id \notin {x.id : x \in bills}
              /\ new.id \notin {d.original_bill_id : d \in deleted_bills}

(* C12: restore answers NotFound and leaves both tables as they were when
   the owner has no deleted bill with the given id; when it succeeds, the
   row it inserts gets a key that no bill was given before, the
   original_bill_id of the restored entry included. *)
C12_RestoreNotFoundOrFreshKey ==
    /\ []KeysWereAssigned
    /\ [][\A r \in Slots :
            (req[r].op = "restore" /\ StepOf(r) /\ ~Free(r))
            => RestoreNotFound404(r) /\ RestoreKeyIsFresh(r)]_vars

\* the same, for the requests whose id is a number
RestoreOfScalarIdNotFoundOrFreshKey ==
    /\ []KeysWereAssigned
    /\ [][\A r \in Slots :
            (req[r].op = "restore" /\ StepOf(r) /\ ~Free(r) /\ req[r].id.t = "number")
            => RestoreNotFound404(r) /\ RestoreKeyIsFresh(r)]_vars

\* a restore by number has answered 404, and another has inserted a bill
\* whose key is above the original_bill_id it restored
RestoreOfScalarId_Witness ==
    \E r \in Slots :
        /\ Finished(r, "restore", 200)
        /\ req[r].id.t = "number"
        /\ req[r].rid = 3
        /\ \E d \in req[r].rows : d.original_bill_id \in {1, 2}

\* what the purge step of request r does to the two tables
PurgesTheNamedRow(r) ==
    LET named == DeletedRowsNamedBy(r) IN
    /\ bills' = bills /\ nextBillId' = nextBillId /\ nextDeletedId' = nextDeletedId
    /\ req'[r].status \in {200, 404, 500}
    /\ req'[r].status = 200
         => /\ Cardinality(named) = 1
            /\ deleted_bills' = deleted_bills \ named
    /\ req'[r].status # 200 => deleted_bills' = deleted_bills
    /\ named = {} => req'[r].status # 200
    /\ req'[r].status = 404 => named = {}

(* C13: purge removes the deleted bill that has the given id and owner, and
   nothing else: bills and every other deleted bill stay as they were.  When
   the owner has no deleted bill with that id (none at all, or only another
   owner's), purge answers NotFound and changes nothing. *)
C13_PurgeRemovesExactlyOne ==
    [][\A r \in Slots :
         (req[r].op = "purge" /\ req[r].pc = "delete" /\ StepOf(r))
         => PurgesTheNamedRow(r)]_vars

\* the same, for the requests whose id is a number
PurgeOfScalarIdRemovesExactlyOne ==
    [][\A r \in Slots :
         (req[r].op = "purge" /\ req[r].pc = "delete" /\ StepOf(r)
          /\ req[r].id.t = "number")
         => PurgesTheNamedRow(r)]_vars

\* a purge by number was refused for a row that another owner holds
PurgeOfScalarId_Witness ==
    \E r \in Slots :
        /\ Finished(r, "purge", 404)
        /\ req[r].id.t = "number"
        /\ \E d \in deleted_bills : d.id = req[r].id.n /\ d.user_id # req[r].user

\* the store at the stages of the trace: empty, one bill "E1" of admin, and
\* that bill moved to deleted_bills
EmptyStore == bills = {} /\ deleted_bills = {}

OneOf(table) ==
    \E x \in table : table = {x} /\ x.estimate_no = "E1" /\ x.user_id = "admin"

OneBillStored == OneOf(bills) /\ deleted_bills = {}

OneBillDeleted == bills = {} /\ OneOf(deleted_bills)

\* request r of the signed-in admin is answered in this step
Answers(r, op) ==
    StepOf(r) /\ req'[r].op = op /\ req'[r].pc = "done" /\ req'[r].user = "admin"

\* a store call that fails is answered 500; otherwise the request succeeds
Succeeds(r) == req'[r].status \in {200, 500}

OneRowE1(out) == \E x \in out : out = {x} /\ x.estimate_no = "E1"

(* C14: the trace from an empty store.  Signed in, a save of estimateNo "E1"
   and customerName "Acme" reports "inserted"; the list then has exactly one
   row, of estimateNo "E1"; the delete of "E1" succeeds; the list is then
   empty and the list of deleted bills has exactly one entry; the restore of
   that entry's id succeeds; the list then has exactly one row again and the
   list of deleted bills is empty.  Each stage is stated from the store the
   stage before leaves. *)
C14_EndToEndTrace ==
    [][\A r \in Slots :
         /\ (Answers(r, "save") /\ EmptyStore
             /\ req'[r].body = Minimal(Str("E1"), Str("Acme")))
            => /\ Succeeds(r)
               /\ req'[r].status = 200
                    => req'[r].action = "inserted" /\ OneBillStored'
         /\ (Answers(r, "list") /\ req'[r].status = 200)
            => /\ OneBillStored => OneRowE1(req'[r].out)
               /\ OneBillDeleted => req'[r].out = {}
         /\ (Answers(r, "listDeleted") /\ req'[r].status = 200)
            => /\ OneBillDeleted => OneRowE1(req'[r].out)
               /\ OneBillStored => req'[r].out = {}
         /\ (Answers(r, "delete") /\ OneBillStored /\ req'[r].est = Str("E1"))
            => /\ Succeeds(r)
               /\ req'[r].status = 200 => OneBillDeleted'
         /\ (Answers(r, "restore") /\ OneBillDeleted
             /\ \E d \in deleted_bills : req'[r].id = Num(d.id))
            => /\ Succeeds(r)
               /\ req'[r].status = 200 => OneBillStored']_vars

\* the last write of the trace: the restore of entry 1 has put the bill saved
\* with only its two key fields back, under a new key, and emptied deleted_bills
C14_Witness ==
    \E r \in Slots :
        /\ Finished(r, "restore", 200) /\ req[r].id = Num(1) /\ req[r].rid = 2
        /\ nextBillId = 3 /\ nextDeletedId = 2
        /\ \E b \in bills : /\ bills = {b} /\ b.id = 2 /\ b.estimate_no = "E1"
                            /\ b.customer_name = Str("Acme")
                            /\ b.items = Native("[]") /\ b.bill_date = Null
        /\ deleted_bills = {}

\* the step is the arrival of a login, answered at once
LoginStep(r) == Arrives(r) /\ req'[r].op = "login"

\* the credentials of the request are the configured ones, as text compares
MatchesAdmin(c) ==
    /\ c.email.t = "string" /\ c.password.t = "string"
    /\ TrimLower(c.email.s) = ADMIN_EMAIL
    /\ Trim(c.password.s) = ADMIN_PASSWORD

\* a login changes the session identity only when the credentials match, and
\* then to "admin"; refused with 400 or 401 it leaves the identity as it was,
\* so that without one before there is none after
LoginGuardsSession(r) ==
    /\ session' # session => MatchesAdmin(req'[r].body) /\ session' = "admin"
    /\ req'[r].status = 200 <=> MatchesAdmin(req'[r].body)
    /\ req'[r].status = 200 => session' = "admin"
    /\ req'[r].status \in {400, 401} => session' = session
    /\ (session = NoUser /\ req'[r].status # 200) => ~requireAuth'

\* the answers to credentials that do not log in
LoginRefusals(r) ==
    LET c == req'[r].body IN
    /\ (Absent(c.email) \/ Absent(c.password)) => req'[r].status = 400
    /\ (~Absent(c.email) /\ ~Absent(c.password) /\ ~MatchesAdmin(c))
         => req'[r].status = 401

(* C15: login sets the session identity, to "admin", only when the email
   and the password match the configured credentials; a login without an
   email or without a password is answered 400 and one whose credentials do
   not match 401, and neither sets an identity, so that a gated request
   after it is still refused. *)
C15_LoginOnlyOnMatch ==
    [][\A r \in Slots : LoginStep(r) => LoginGuardsSession(r) /\ LoginRefusals(r)]_vars

\* the same, for credentials that are texts or absent
LoginOfTextsOnlyOnMatch ==
    [][\A r \in Slots :
         (LoginStep(r) /\ req'[r].body.email.t # "number")
         => LoginGuardsSession(r) /\ LoginRefusals(r)]_vars

\* the right email with a wrong password was refused with no identity set
LoginOfTexts_Witness ==
    \E r \in Slots :
        /\ Finished(r, "login", 401)
        /\ req[r].body = [email |-> Str(" Admin@X.io "), password |-> Str("guess")]
        /\ session = NoUser

\* a list without pagination parameters is answered in this step
ListsAll(r) ==
    /\ req[r].op = "list" /\ req[r].pc = "select" /\ StepOf(r)
    /\ req[r].body = [limit |-> DefaultLimit, offset |-> 0]
    /\ req'[r].status = 200

\* the answer holds every bill of the caller, once each
EveryBillOnce(r) ==
    LET page == req'[r].page
        owned == OwnedBy(bills, req[r].user)
    IN /\ Len(page) = Cardinality(owned)
       /\ \A b \in owned : \E i \in DOMAIN page : page[i].id = b.id /\ Data(page[i]) = Data(b)

\* the answer is in descending order of updated_at, and of created_at within
\* the same updated_at
NewestFirst(r) ==
    LET page == req'[r].page IN
    \A i, j \in DOMAIN page :
        i < j => \/ page[i].updated_at > page[j].updated_at
                 \/ /\ page[i].updated_at = page[j].updated_at
                    /\ page[i].created_at >= page[j].created_at

(* C16: a list without pagination parameters returns every bill of the
   caller, however many there are, ordered by updated_at descending and,
   within the same updated_at, by created_at descending. *)
C16_ListReturnsAllNewestFirst ==
    [][\A r \in Slots : ListsAll(r) => EveryBillOnce(r) /\ NewestFirst(r)]_vars

\* the same for the callers who own no more bills than the default limit,
\* and the order alone for all
ListReturnsAllUpToDefaultLimit ==
    [][\A r \in Slots :
         ListsAll(r)
         => /\ NewestFirst(r)
            /\ Cardinality(OwnedBy(bills, req[r].user)) <= DefaultLimit
                 => EveryBillOnce(r)]_vars

\* three bills of the caller listed, the first updated last and, of the two
\* others, updated in the same second, the one created last before the other
ListReturnsAll_Witness ==
    \E r \in Slots :
        /\ Finished(r, "list", 200) /\ Len(req[r].page) = 3
        /\ req[r].page[1].updated_at = 1
        /\ req[r].page[2].updated_at = 0 /\ req[r].page[2].created_at = 1
        /\ req[r].page[3].updated_at = 0 /\ req[r].page[3].created_at = 0

MoneyCols == {"sub_total", "discount", "grand_total", "received", "balance"}

\* what the column holds is a number: not NULL, and a text that reads as a
\* number and not as NaN
FiniteNumber(v) == v.t = "string" /\ Trim(v.s) # "" /\ StringToNumber(v.s) # NaN

(* C17: in every reachable state each of sub_total, discount, grand_total,
   received and balance of every row of bills and of deleted_bills is a
   finite number, never NULL and never NaN, whatever save and update were
   given and through every move between the two tables. *)
C17_MoneyIsFinite ==
    \A row \in bills \cup deleted_bills :
        \A c \in MoneyCols : FiniteNumber(row[c])

\* the bill saved with a text, a word, NaN, null and nothing for its five
\* amounts sits in deleted_bills with 12 and four zeros, next to a third bill
\* of that customer in bills
C17_Witness ==
    /\ \E d \in deleted_bills :
         /\ d.user_id = "admin" /\ d.customer_name = Str("Bob")
         /\ d.sub_total = Str("12") /\ d.discount = Str("0") /\ d.grand_total = Str("0")
         /\ d.received = Str("0") /\ d.balance = Str("0")
    /\ \E b \in bills : b.user_id = "admin" /\ b.id = 3 /\ b.customer_name = Str("Bob")

(* C18: in every reachable state every row of bills has a customer_name
   that is not empty, whatever saves and updates were made, an update that
   sets customerName to an empty or falsy value included. *)
C18_NameNeverEmpty ==
    \A b \in bills : b.customer_name # Null /\ b.customer_name # Str("")

\* a save whose customerName is given as text writes a row whose name is
\* neither empty nor blank
SaveOfTextKeepsName ==
    [][\A r \in Slots :
         (req[r].op = "save" /\ req[r].pc = "write" /\ StepOf(r)
          /\ req'[r].status = 200 /\ req[r].body.customerName.t = "string")
         => \A b \in bills' : b.id = req'[r].rid
                => b.customer_name # Null /\ Trim(b.customer_name.s) # ""]_vars

\* request r is a valid save about to write, of an estimate number that its
\* owner does not hold and another owner does
SavesHeldByAnother(r) ==
    /\ req[r].op = "save" /\ req[r].pc = "write"
    /\ req[r].rows = {}
    /\ JsonColAccepts(billData(req[r].body)[4])
    /\ \E x \in bills : /\ x.estimate_no = String(req[r].body.estimateNo)
                        /\ x.user_id # req[r].user

\* the write can succeed, as an insert
CanInsert(r) ==
    ENABLED (SaveWrite(r) /\ req'[r].status = 200 /\ req'[r].action = "inserted")

\* when the write succeeds it adds one row, of the saving owner, and each
\* owner's bill of that estimate number is then that owner's own: the other
\* owners find their rows as they were, the saving owner the new row
EachOwnerFindsOwn(r) ==
    LET e == String(req[r].body.estimateNo) IN
    /\ req'[r].action = "inserted"
    /\ \E new \in bills' :
         /\ bills' = bills \cup {new} /\ new \notin bills
         /\ new.user_id = req[r].user /\ new.estimate_no = e
         /\ new.id = req'[r].rid
         /\ SelectBillByEstimate(bills', e, req[r].user) = {new}
    /\ \A o \in Owners \ {req[r].user} :
         SelectBillByEstimate(bills', e, o) = SelectBillByEstimate(bills, e, o)

(* C19: estimateNo is unique per owner, not over all owners.  When one
   owner holds a bill of estimate number E, a valid save of E by another
   owner succeeds and reports "inserted", and each of the two then finds
   under E the bill that is that owner's own. *)
C19_SaveOfAnotherOwnersEstimateNo ==
    /\ [](\A r \in Slots : SavesHeldByAnother(r) => CanInsert(r))
    /\ [][\A r \in Slots :
            (SavesHeldByAnother(r) /\ StepOf(r) /\ req'[r].status = 200)
            => EachOwnerFindsOwn(r)]_vars

\* the same, where the schema of bills has no UNIQUE key on estimate_no
SaveOfAnotherOwnersEstimateNoWithoutKey ==
    /\ [](\A r \in Slots :
            (SavesHeldByAnother(r) /\ ~estimateNoUnique) => CanInsert(r))
    /\ [][\A r \in Slots :
            (SavesHeldByAnother(r) /\ StepOf(r) /\ req'[r].status = 200)
            => EachOwnerFindsOwn(r)]_vars

\* admin has saved "E1", which legacy holds as bill 1, and both rows are there
SaveOfAnotherOwnersEstimateNo_Witness ==
    \E r \in Slots :
        /\ Finished(r, "save", 200) /\ req[r].action = "inserted"
        /\ \E a \in bills : a.user_id = "legacy" /\ a.estimate_no = "E1" /\ a.id = 1
        /\ \E b \in bills : b.user_id = "admin" /\ b.estimate_no = "E1"
                            /\ b.id = req[r].rid

\* items that are no structure: absent, or a text that is not JSON
Malformed(v) == Absent(v) \/ (v.t = "string" /\ ~JsonValid(v.s))

\* request r is about to write, in a save or in an update, items that are
\* Sort, with nothing else in the way of the write
WritesItems(r, Sort(_)) ==
    /\ req[r].pc = "write"
    /\ \/ /\ req[r].op = "save" /\ Sort(req[r].body.items)
          /\ ~(req[r].rows = {} /\ DuplicateKey(String(req[r].body.estimateNo)))
       \/ /\ req[r].op = "update" /\ req[r].body.f.items # Undef
          /\ Sort(req[r].body.f.items)

\* the write can succeed
CanWrite(r) ==
    \/ ENABLED (SaveWrite(r) /\ req'[r].status = 200)
    \/ ENABLED (UpdateWrite(r) /\ req'[r].status = 200)

\* the row written reads back with an empty sequence of items
ReadsBackEmpty(r) ==
    \A b \in bills' : b.id = req'[r].rid => parseItems(b.items) = Native("[]")

(* C20: malformed items never fail a request.  A save or an update whose
   items are a text that is not JSON, or null, or absent, completes, and a
   read of the bill then returns an empty sequence of items. *)
C20_MalformedItemsNeverFail ==
    /\ [](\A r \in Slots : WritesItems(r, Malformed) => CanWrite(r))
    /\ [][\A r \in Slots :
            (WritesItems(r, Malformed) /\ StepOf(r) /\ req'[r].status = 200)
            => ReadsBackEmpty(r)]_vars

\* the same, for items that are null or absent
AbsentItemsNeverFail ==
    /\ [](\A r \in Slots : WritesItems(r, Absent) => CanWrite(r))
    /\ [][\A r \in Slots :
            (WritesItems(r, Absent) /\ StepOf(r) /\ req'[r].status = 200)
            => ReadsBackEmpty(r)]_vars

\* a save without items over a bill that had some: the row now holds []
AbsentItems_Witness ==
    \E r \in Slots :
        /\ Finished(r, "save", 200) /\ req[r].action = "updated"
        /\ req[r].body = Minimal(Str("E1"), Str("Acme"))
        /\ \E b \in bills : b.id = req[r].rid /\ b.items = Native("[]")
        /\ req[r].rows # {} /\ \A x \in req[r].rows : x.items = Native("[1]")

\* the texts an items column is given, and what each deserializes to
StoredTexts == {Str(t) : t \in JsonTexts} \cup {Str("not json")}

Deserialized(val) == IF JsonValid(val.s) THEN JsonParse(val.s) ELSE Native("[]")

(* C21: parseItems is independent of the calls made before it.  Whatever
   toJSONString and parseItems were called with earlier, parseItems of a
   stored text returns the structure the text deserializes to, the empty
   sequence if it does not parse: not the text itself and not a value cached
   for another input. *)
C21_ParseItemsIgnoresHistory ==
    \A val \in StoredTexts : parseItemsOn(jsonCache, val) = Deserialized(val)

\* what does hold: of a text that toJSONString has not cached, that is a text
\* that is not the serialization of a structure passed to it earlier
ParseItemsOfTextNotSerializedBefore ==
    \A val \in StoredTexts :
        (CacheHas(jsonCache, val) => CacheGet(jsonCache, val).t # "string")
        => parseItemsOn(jsonCache, val) = Deserialized(val)

\* parseItems has cached the array of a text, and finds it there
ParseItemsOfTextNotSerializedBefore_Witness ==
    /\ CacheHas(jsonCache, Str("[ 1 ]"))
    /\ parseItemsOn(jsonCache, Str("[ 1 ]")) = Native("[1]")
    /\ CacheHas(jsonCache, Str("[2]")) /\ CacheGet(jsonCache, Str("[2]")) = Str("[2]")

\* in the lifecycle every entry of jsonCache is a text toJSONString has
\* serialized, and every items column holds a structure or null: toJSONString
\* returns there what it returns with nothing cached, and parseItems returns
\* its argument or [] and leaves jsonCache as it is
CacheIsOfSerializedTexts ==
    /\ \A e \in jsonCache : e.key.t = "string" /\ e.value = e.key
    /\ \A row \in bills \cup deleted_bills : row.items.t \in {"object", "null"}

\* the requests that hold a connection of the pool
Held == {r \in DOMAIN req : req[r].conn}

(* C22: a soft delete or a restore releases the connection it acquired
   exactly once, whichever way it ends: after the commit, after the rollback
   of a request that found no row, after a statement, the commit or the
   rollback itself has failed.  A request acquires at most one connection,
   holds it until it has released it, and has released it when it is over;
   when every request is over no handler holds a connection. *)
C22_ConnectionReleasedOnce ==
    /\ \A r \in DOMAIN req :
          /\ req[r].acquired \in {0, 1}
          /\ req[r].released = (IF req[r].conn THEN 0 ELSE req[r].acquired)
          /\ Free(r) => ~req[r].conn
          /\ req[r].acquired = 1 => req[r].op \in {"delete", "restore"}
    /\ (\A r \in DOMAIN req : Free(r)) => Held = {}

\* a restore whose commit failed and whose rollback failed as well is over,
\* unanswered, and has released its connection
C22_Witness ==
    \E r \in DOMAIN req :
        /\ req[r].op = "restore" /\ req[r].pc = "crashed"
        /\ req[r].rid # 0
        /\ req[r].acquired = 1 /\ req[r].released = 1 /\ ~req[r].conn

\* the handlers that run a transaction
Transactional == {"delete", "restore"}

\* request r is over without a response: its handler threw out of its try
\* block, or before it
Unanswered(r) == req[r].pc = "crashed"

\* an answer 500 of a transactional handler is sent by the step that rolls
\* the transaction back: nothing of the transaction is left, and the tables
\* are as they were
RolledBackBefore500 ==
    \A r \in DOMAIN req :
        (req[r].op \in Transactional /\ ~Free(r) /\ StepOf(r)
         /\ req'[r].pc = "done" /\ req'[r].status = 500)
        => /\ req[r].pc = "rollback"
           /\ req'[r].tx = NoTx
           /\ UNCHANGED <<bills, deleted_bills>>

(* C23: a store call that fails inside save, update, soft delete, restore or
   purge ends the request with the answer 500, whichever call it is: no
   request is left unanswered, a handler that has caught a failure answers
   500, and a soft delete or a restore has rolled its transaction back when
   it answers 500. *)
C23_StoreFailureIs500 ==
    /\ [](\A r \in DOMAIN req : ~Unanswered(r))
    /\ [][\A r \in DOMAIN req :
            (req[r].pc = "rollback" /\ StepOf(r))
            => (req'[r].pc = "done" /\ req'[r].status = 500)]_vars
    /\ [][RolledBackBefore500]_vars

\* what does hold: a request is left unanswered only by the failure of
\* getConnection, which is awaited before the try block, or of the rollback
\* in the catch block; every other failure is answered 500, after the
\* rollback where there is a transaction
StoreFailureInsideTryIs500 ==
    /\ [][\A r \in DOMAIN req :
            (StepOf(r) /\ Unanswered(r)')
            => (req[r].op \in Transactional /\ req[r].pc \in {"getConnection", "rollback"})]_vars
    /\ [][RolledBackBefore500]_vars

\* a soft delete that failed after its insert has answered 500 after its
\* rollback, and the bill is where it was
StoreFailureInsideTryIs500_Witness ==
    \E r \in DOMAIN req :
        /\ Finished(r, "delete", 500) /\ req[r].rows # {}
        /\ req[r].released = 1 /\ req[r].tx = NoTx
        /\ req[r].rows \subseteq bills
        /\ nextDeletedId = 2 /\ deleted_bills = {}

\* the store from which the two requests of RaceSpec start is one the
\* lifecycle reaches
RaceStartIsReached ==
    /\ bills = {RaceBill} /\ deleted_bills = {RaceDeleted}
    /\ nextBillId = 3 /\ nextDeletedId = 2 /\ ~estimateNoUnique
    /\ session = "admin" /\ jsonCache = {}
    /\ moved = {[deleted |-> 1, bill |-> RaceDeletedBill]}

\* both requests in flight are saves
TwoSaves == \A r \in DOMAIN req : req[r].op = "save"

\* the row that request r has written holds every data column as a save of
\* the body of r stores it
HoldsBodyOf(r, row) == Data(row) = BillColumns(billData(req[r].body))

(* C24: the last writer wins between two concurrent saves of the estimate
   number of an existing bill.  Each save that succeeds leaves in the row
   the whole field set of its own body, and once both have succeeded the row
   holds the whole field set of one of the two bodies, never fields of
   both. *)
C24_LastWriterWins ==
    /\ [][\A r \in DOMAIN req :
            (TwoSaves /\ req[r].pc = "write" /\ StepOf(r) /\ req'[r].status = 200)
            => /\ req'[r].action = "updated"
               /\ \E row \in bills' : bills' = {row} /\ row.id = req'[r].rid
                                        /\ HoldsBodyOf(r, row)]_vars
    /\ []((TwoSaves /\ \A r \in DOMAIN req : Finished(r, "save", 200))
          => \E row \in bills : /\ bills = {row}
                                /\ row.id = RaceBill.id
                                /\ row.estimate_no = RaceBill.estimate_no
                                /\ row.user_id = RaceBill.user_id
                                /\ \E r \in DOMAIN req : HoldsBodyOf(r, row))

\* two saves with different bodies have both succeeded, and the row holds
\* the body of the first client throughout, the other having written before
C24_Witness ==
    /\ DOMAIN req = Racers
    /\ Finished(1, "save", 200) /\ Finished(2, "save", 200)
    /\ req[1].body = Full(Str("E1"), Str("Acme"))
    /\ req[2].body = Odd(Str("E1"), Str("Bob"))
    /\ \E row \in bills : /\ bills = {row} /\ HoldsBodyOf(1, row)
                          /\ row.customer_name = Str("Acme")
                          /\ row.sub_total = Str("10")

\* the deleted bill that restore r has read
ReadBy(r) == CHOOSE x \in req[r].rows : TRUE

\* restore r has read its deleted bill and is about to insert
AboutToInsert(r) == req[r].op = "restore" /\ req[r].pc = "insert"

\* the insert of restore r can succeed
CanRestore(r) == ENABLED (RestoreInsert(r) /\ req'[r].pc = "delete")

\* a restore that finds a deleted bill of its id and owner never answers
\* NotFound: it goes on to insert, or to the rollback if the query failed
FoundGoesOn ==
    \A r \in DOMAIN req :
        (req[r].op = "restore" /\ req[r].pc = "select" /\ StepOf(r)
         /\ SelectDeletedById(deleted_bills, req[r].id, req[r].user) # {})
        => req'[r].pc \in {"insert", "rollback"}

\* the commit of a restore adds one bill, of the owner and the estimate
\* number of the deleted bill, to the ones that owner has under that number
CommitAddsOne ==
    \A r \in DOMAIN req :
        (req[r].op = "restore" /\ req[r].pc = "commit" /\ StepOf(r)
         /\ req'[r].status = 200)
        => /\ \E new \in bills' : /\ new \notin bills /\ bills' = bills \cup {new}
                                   /\ new.id = req'[r].rid
                                   /\ new.user_id = req[r].user
                                   /\ new.estimate_no = ReadBy(r).estimate_no
           /\ Cardinality(SelectBillByEstimate(bills', ReadBy(r).estimate_no, req[r].user))
                = Cardinality(SelectBillByEstimate(bills, ReadBy(r).estimate_no,
                                                   req[r].user)) + 1

(* C25: restore performs no collision check.  Whenever a deleted bill of the
   given id and owner exists, restore goes on to insert a bill and the insert
   can succeed, also when the owner has an active bill of the same estimate
   number; its commit adds one bill, so that two active bills share the
   estimate number afterwards. *)
C25_RestoreChecksNoCollision ==
    /\ [][FoundGoesOn]_vars
    /\ [](\A r \in DOMAIN req : AboutToInsert(r) => CanRestore(r))
    /\ [][CommitAddsOne]_vars

(* C25 as the code and the store have it: the same, where the store accepts
   the insert.  Where estimate_no has a UNIQUE key and a bill of that
   estimate number exists, the insert cannot succeed. *)
C25_RestoreChecksNoCollisionOfItsOwn ==
    /\ [][FoundGoesOn]_vars
    /\ [](\A r \in DOMAIN req :
            AboutToInsert(r) => (CanRestore(r) <=> ~DuplicateKey(ReadBy(r).estimate_no)))
    /\ [][CommitAddsOne]_vars

\* a restore has succeeded and its owner has two active bills of the
\* estimate number restored
C25_Witness ==
    \E r \in DOMAIN req :
        /\ Finished(r, "restore", 200) /\ req[r].id.t = "number"
        /\ \E a \in bills : \E b \in bills :
              /\ a.id = req[r].rid /\ b.id # a.id
              /\ a.user_id = b.user_id /\ a.estimate_no = b.estimate_no

\* the requests of the given operation that have answered 200
Successes(op) == {r \in DOMAIN req : Finished(r, op, 200)}

(* C26: concurrent soft deletes of one estimate number of one owner move the
   bill once.  deleted_bills never holds two rows with the same
   original_bill_id, and at most one of the requests answers success. *)
C26_OneDeletedRowPerBill ==
    /\ \A a \in deleted_bills : \A b \in deleted_bills :
          a.original_bill_id = b.original_bill_id => a.id = b.id
    /\ Cardinality(Successes("delete")) <= 1

\* what does hold: the bill is in bills, or deleted_bills holds a row made
\* from it with the data it had when the delete read it; it is never lost
\* and never in both tables
SoftDeletedBillIsKept ==
    LET copies == {d \in deleted_bills : d.original_bill_id = RaceBill.id} IN
    /\ (\E b \in bills : b.id = RaceBill.id) <=> copies = {}
    /\ \A d \in copies : d.estimate_no = RaceBill.estimate_no /\ d.user_id = RaceBill.user_id

\* two soft deletes have both answered success
SoftDeletedBillIsKept_Witness ==
    /\ Cardinality(Successes("delete")) = 2
    /\ Cardinality({d \in deleted_bills : d.original_bill_id = RaceBill.id}) = 2
    /\ bills = {}

\* the bills made from the deleted bill of RaceSpec
Restored == {b \in bills : b.estimate_no = RaceDeleted.estimate_no}

(* C27: concurrent restores of one deleted bill restore it at most once.  At
   most one bill is inserted for it, and at most one of the requests answers
   success. *)
C27_RestoredAtMostOnce ==
    /\ Cardinality(Restored) <= 1
    /\ Cardinality(Successes("restore")) <= 1

\* what does hold: every bill restored is the deleted bill, field by field,
\* under a key of its own, and once a restore has succeeded the deleted bill
\* is gone
RestoredBillsAreTheDeletedBill ==
    /\ \A b \in Restored : Data(b) = Data(RaceDeleted) /\ b.user_id = RaceDeleted.user_id
    /\ \A a \in Restored : \A b \in Restored : a.id = b.id => a = b
    /\ Successes("restore") # {} => deleted_bills \cap {RaceDeleted} = {}

\* two restores have both answered success and left two bills
RestoredBillsAreTheDeletedBill_Witness ==
    /\ Cardinality(Successes("restore")) = 2
    /\ Cardinality(Restored) = 2

\* every request in flight is a save or an update
SavesAndUpdates == \A r \in DOMAIN req : req[r].op \in {"save", "update"}

(* C28: an update loses no concurrent write.  When a save or another update
   of the same bill has written between the read and the write of an update,
   every column that the update does not name holds after its write what it
   held before it, that is what the other request wrote. *)
C28_UpdateLosesNoWrite ==
    [][\A r \in DOMAIN req :
         (SavesAndUpdates /\ UpdateWrites(r))
         => \A old \in bills : old.id = req'[r].rid
              => \E new \in bills' :
                   /\ new.id = old.id
                   /\ \A k \in MutableFields :
                        req[r].body.f[k] = Undef
                        => new[ColumnOf[k]] = KeptAsRead(ColumnOf[k], old[ColumnOf[k]])]_vars

\* what does hold: the columns the update does not name hold what they held
\* when the update read the row
UpdateWritesWhatItRead ==
    [][\A r \in DOMAIN req :
         (SavesAndUpdates /\ UpdateWrites(r))
         => \A new \in bills' : new.id = req'[r].rid
              => \A k \in MutableFields :
                   req[r].body.f[k] = Undef
                   => new[ColumnOf[k]] = KeptAsRead(ColumnOf[k], ReadBy(r)[ColumnOf[k]])]_vars

\* an update has written the name it read over the name a save wrote after
\* that read
UpdateWritesWhatItRead_Witness ==
    \E r \in DOMAIN req : \E o \in DOMAIN req :
        /\ Finished(r, "update", 200) /\ Finished(o, "save", 200)
        /\ req[o].body.customerName = Str("Bob")
        /\ \E b \in bills : b.id = req[r].rid /\ b.customer_name = Str("Acme")
                             /\ b.customer_phone = Str("7")

(* C29: a purge that answers success is final.  Whatever the interleaving of
   a purge and a restore of one deleted bill, once both are over and the
   purge has answered success there is no active bill made from it. *)
C29_PurgeIsFinal ==
    \A p \in DOMAIN req : \A q \in DOMAIN req :
        (Finished(p, "purge", 200) /\ req[q].op = "restore" /\ Free(q))
        => Restored = {}

\* what does hold: the deleted bill is gone once the purge has answered
\* success, and a restore that reads after that finds nothing
PurgedEntryIsGone ==
    /\ Successes("purge") # {} => \A d \in deleted_bills : d.id # RaceDeleted.id
    /\ \A q \in DOMAIN req :
          (req[q].op = "restore" /\ req[q].pc = "insert")
          => req[q].rows = {RaceDeleted}

\* a purge and a restore of the deleted bill have both answered success
PurgedEntryIsGone_Witness ==
    /\ Successes("purge") # {} /\ Successes("restore") # {}
    /\ Restored # {} /\ \A d \in deleted_bills : d.id # RaceDeleted.id

\* the identity of a row of bills
IdentityOf(row) == <<row.id, row.user_id, row.estimate_no>>

\* the step is the write of a save that found the bill, or of an update
WritesExisting(r) ==
    \/ UpdateWrites(r)
    \/ /\ req[r].op = "save" /\ req[r].pc = "write" /\ StepOf(r)
       /\ req'[r].status = 200 /\ req'[r].action = "updated"

(* C30: no operation changes the identity of an existing bill.  The write of
   a save that found the bill and the write of an update leave every row of
   bills under the id, the owner and the estimate number it had, and add and
   remove no row, also when the updates carry an estimateNo, an id or an
   owner key. *)
C30_IdentityIsKept ==
    [][\A r \in DOMAIN req :
         WritesExisting(r)
         => /\ {IdentityOf(x) : x \in bills'} = {IdentityOf(x) : x \in bills}
            /\ Cardinality(bills') = Cardinality(bills)
            /\ \E x \in bills' : x.id = req'[r].rid /\ x.user_id = req[r].user]_vars

\* an update whose updates name another estimate number, id and owner has
\* succeeded and its row is where it was
C30_Witness ==
    \E r \in DOMAIN req :
        /\ Finished(r, "update", 200)
        /\ req[r].body.f.estimateNo = Str("E1") /\ req[r].body.f.id = Num(9)
        /\ req[r].body.f.userId = Str("legacy")
        /\ \E x \in bills : /\ x.id = req[r].rid /\ x.id # 9
                             /\ x.estimate_no = "E2" /\ x.user_id = "admin"
                             /\ x.customer_phone = Str("7")

====
